---------------------------- MODULE Spec2Model ----------------------------
(***************************************************************************)
(* A model of the smali-lsp analysis core (src/src/server): the position   *)
(* bridge (helper.rs), the tokenizer (lexer.rs) and the streaming          *)
(* validation engine (validation/).                                        *)
(*                                                                         *)
(* A text is a sequence of bytes, each byte a one-character string (or a   *)
(* symbolic name for a byte of a multi-byte character).  Offsets are       *)
(* 0-based as in the source; sequences are 1-based as in TLA+.             *)
(***************************************************************************)
EXTENDS Integers, Sequences, FiniteSets, TLC

VARIABLES
    \* ---- position bridge harness (helper.rs) ----
    p_text,     \* the content both functions are called with
    p_fn,       \* the function called last: "none", "pos_to_lsp_pos", "lsp_pos_to_pos"
    p_in,       \* its argument   [off, line, character]
    p_out,      \* its result     [abort, off, line, character]
    p_back,     \* the result of the inverse function applied to p_out [done, abort, off, line, character]
    \* ---- lex_str run step by step (lexer.rs) ----
    lx_content, \* the input text
    lx_end,     \* lex.span().end of the last token (0-based offset)
    lx_output,  \* the tokens pushed so far
    lx_pc,      \* "idle", "lexing", "returned", "panicked"
    \* ---- validate (validation/mod.rs) ----
    v_content,      \* the text validate is called with
    v_pc,           \* "idle", "called", "loop", "returned", "panicked"
    v_tokens,       \* tokens
    v_idx,          \* index (1-based) of the next token of the for loop
    v_current_line, \* current_line
    v_diags,        \* diags
    v_validator,    \* directives_validator
    v_last,         \* ghost: what the last loop iteration did
    v_log,          \* ghost: the callbacks invoked so far, in order
    v_run,          \* ghost: number of the current call of validate
    v_history,      \* ghost: text and result of every finished call
    \* ---- trim_space_tokens called on its own (helper.rs) ----
    tr_tokens,  \* the argument
    tr_output,  \* the result
    tr_pc,      \* "idle", "called", "returned"
    \* ---- one Document and the handlers that use it (main.rs) ----
    d_content,  \* Document.content: the stored text
    d_readers,  \* the handlers that hold a read guard of Document.content
    d_writers,  \* the handlers that hold a write guard of Document.content
    d_pc,       \* where each handler is
    d_edit,     \* the content change each handler applies
    d_range,    \* the byte range each handler computed for its change
    d_snapshot, \* the text each handler hands to validate
    d_torn,     \* ghost: a splice has begun and not finished
    d_versions, \* ghost: the stored text at the start and after every splice
    d_published, \* the publications sent to the client, in order: handler and text validated
    \* ---- HeaderValidator::validate_line called on one line (directives/header.rs) ----
    h_text,     \* the text of the line
    h_line,     \* the line the callback is called with
    h_out,      \* the validator after the call and the diagnostics returned
    h_pc,       \* "idle", "called", "returned"
    \* ---- the DocumentCache and the notification handlers of the Backend (main.rs) ----
    c_script,   \* the notifications the client sends, in order
    c_next,     \* index of the next notification to be handled
    c_map,      \* DocumentCache.map for the one URI of the session: [present, content]
    c_map_lock, \* the RwLock of the map: [readers, writers, queue]
    c_content_lock, \* the RwLock of Document.content: [readers, writers, queue]
    c_pc,       \* where each handler is
    c_job,      \* the notification each handler handles
    c_i,        \* index (1-based) of the content change DocumentCache::update is at
    c_range,    \* the byte range Document::update computed
    c_snapshot, \* the text cloned for validate
    c_log,      \* ghost: what the handlers did to the registry, in order
    c_notes     \* ghost: what was done for each notification, in order

posVars == <<p_text, p_fn, p_in, p_out, p_back>>
lexVars == <<lx_content, lx_end, lx_output, lx_pc>>
valVars == <<v_content, v_pc, v_tokens, v_idx, v_current_line, v_diags, v_validator,
             v_last, v_log, v_run, v_history>>

trimVars == <<tr_tokens, tr_output, tr_pc>>
docVars == <<d_content, d_readers, d_writers, d_pc, d_edit, d_range, d_snapshot,
             d_torn, d_versions, d_published>>

hdrVars == <<h_text, h_line, h_out, h_pc>>

cacheVars == <<c_script, c_next, c_map, c_map_lock, c_content_lock, c_pc, c_job, c_i,
               c_range, c_snapshot, c_log, c_notes>>

vars == <<posVars, lexVars, valVars, trimVars, docVars, hdrVars, cacheVars>>

\* What the steps of one component leave unchanged.
notPos == <<lexVars, valVars, trimVars, docVars, hdrVars, cacheVars>>
notLex == <<posVars, valVars, trimVars, docVars, hdrVars, cacheVars>>
notVal == <<posVars, lexVars, trimVars, docVars, hdrVars, cacheVars>>
notTrim == <<posVars, lexVars, valVars, docVars, hdrVars, cacheVars>>
notDoc == <<posVars, lexVars, valVars, trimVars, hdrVars, cacheVars>>
notHdr == <<posVars, lexVars, valVars, trimVars, docVars, cacheVars>>
notCache == <<posVars, lexVars, valVars, trimVars, docVars, hdrVars>>

-----------------------------------------------------------------------------
(* A component that a specification does not run stays in its idle state *)

NoIn   == [off |-> 0, line |-> 0, character |-> 0]
NoOut  == [abort |-> FALSE, off |-> 0, line |-> 0, character |-> 0]
NoBack == [done |-> FALSE, abort |-> FALSE, off |-> 0, line |-> 0, character |-> 0]

PosIdle ==
    /\ p_text = <<>>
    /\ p_fn = "none"
    /\ p_in = NoIn
    /\ p_out = NoOut
    /\ p_back = NoBack

LexIdle ==
    /\ lx_content = <<>>
    /\ lx_end = 0
    /\ lx_output = <<>>
    /\ lx_pc = "idle"

TrimIdle ==
    /\ tr_tokens = <<>>
    /\ tr_output = <<>>
    /\ tr_pc = "idle"

HdrIdle ==
    /\ h_text = <<>>
    /\ h_line = <<>>
    /\ h_out = [diags |-> <<>>]
    /\ h_pc = "idle"

-----------------------------------------------------------------------------
(* Bounds of the model *)

MaxTextLen == 4     \* bytes of a text handed to the position bridge
MaxLineArg == 3     \* largest line index passed to lsp_pos_to_pos
MaxColArg  == 3     \* largest column passed to lsp_pos_to_pos
MaxLexChunks == 3   \* pieces a text handed to the step-by-step tokenizer is made of
MaxLines   == 3     \* lines of a validated document
MaxRuns    == 3     \* calls of validate in one session
MaxTrimLen == 5     \* tokens of a list handed to trim_space_tokens
MaxHandlers == 2    \* requests on one document that the server handles at a time
MaxLineChunks == 3  \* pieces a header line handed to the line callback is made of

\* The handlers of the requests on the document.
Handlers == 1..MaxHandlers

NoEdit     == [range |-> [start |-> [line |-> 0, character |-> 0],
                          end   |-> [line |-> 0, character |-> 0]],
               text |-> <<>>]
NoRange    == [abort |-> FALSE, start |-> 0, end |-> 0, seen |-> 0]
NoSnapshot == [taken |-> FALSE, text |-> <<>>, torn |-> FALSE]

DocIdle ==
    /\ d_content = <<>>
    /\ d_readers = {}
    /\ d_writers = {}
    /\ d_pc = [p \in Handlers |-> "off"]
    /\ d_edit = [p \in Handlers |-> NoEdit]
    /\ d_range = [p \in Handlers |-> NoRange]
    /\ d_snapshot = [p \in Handlers |-> NoSnapshot]
    /\ d_torn = FALSE
    /\ d_versions = <<>>
    /\ d_published = <<>>

NoJob   == [n |-> 0, kind |-> "none", text |-> <<>>, changes |-> <<>>]
NoBytes == [start |-> 0, end |-> 0]
Absent  == [present |-> FALSE, content |-> <<>>]
Free    == [readers |-> {}, writers |-> {}, queue |-> <<>>]

CacheIdle ==
    /\ c_script = <<>>
    /\ c_next = 0
    /\ c_map = Absent
    /\ c_map_lock = Free
    /\ c_content_lock = Free
    /\ c_pc = [p \in Handlers |-> "off"]
    /\ c_job = [p \in Handlers |-> NoJob]
    /\ c_i = [p \in Handlers |-> 0]
    /\ c_range = [p \in Handlers |-> NoBytes]
    /\ c_snapshot = [p \in Handlers |-> <<>>]
    /\ c_log = <<>>
    /\ c_notes = <<>>

-----------------------------------------------------------------------------
(* Bytes and strings (Rust &str: well-formed UTF-8) *)

NL == "\n"

\* The two bytes of one two-byte character (U+00E9 is C3 A9 in UTF-8).
LeadByte == "<C3>"
ContByte == "<A9>"

\* Rust str invariant: every lead byte is followed by its continuation byte
\* and every continuation byte follows a lead byte.
WellFormed(s) ==
    \A i \in 1..Len(s) :
        /\ s[i] = LeadByte => (i < Len(s) /\ s[i + 1] = ContByte)
        /\ s[i] = ContByte => (i > 1 /\ s[i - 1] = LeadByte)

\* str::is_char_boundary(index): 0 and len are boundaries, otherwise the byte
\* at index must not be a continuation byte.
is_char_boundary(s, index) ==
    \/ index = 0
    \/ index = Len(s)
    \/ (index < Len(s) /\ s[index + 1] # ContByte)

\* str::split('\n'): the pieces between the separators, n + 1 pieces for n
\* separators (one empty piece for the empty string).
Separators(s) == {k \in DOMAIN s : s[k] = NL}

\* Where the j-th of the separators seps of a string of len bytes is; 0 and
\* len + 1 stand for the two ends.
SeparatorAt(seps, len, j) ==
    IF j = 0 THEN 0
    ELSE IF j > Cardinality(seps) THEN len + 1
    ELSE CHOOSE k \in seps : Cardinality({m \in seps : m <= k}) = j

\* The pieces of s between the separators seps.
Pieces(s, seps) ==
    [j \in 1..(Cardinality(seps) + 1) |->
        SubSeq(s, SeparatorAt(seps, Len(s), j - 1) + 1, SeparatorAt(seps, Len(s), j) - 1)]

split_nl(s) == Pieces(s, Separators(s))

\* [&str]::join("\n")
RECURSIVE join_nl(_)
join_nl(pieces) ==
    IF Len(pieces) = 0 THEN <<>>
    ELSE IF Len(pieces) = 1 THEN pieces[1]
    ELSE pieces[1] \o <<NL>> \o join_nl(Tail(pieces))

-----------------------------------------------------------------------------
(* helper.rs: pos_to_lsp_pos / lsp_pos_to_pos *)

Position(l, c) == [abort |-> FALSE, line |-> l, character |-> c]
PositionAbort  == [abort |-> TRUE, line |-> 0, character |-> 0]
Offset(o)      == [abort |-> FALSE, off |-> o]
OffsetAbort    == [abort |-> TRUE, off |-> 0]

\* str::split_at(mid) panics when mid is past the end or not on a character
\* boundary; otherwise the first half is the prefix of mid bytes.
split_at_ok(s, mid) == mid <= Len(s) /\ is_char_boundary(s, mid)
split_at_0(s, mid)  == SubSeq(s, 1, mid)

\* Mutant of pos_to_lsp_pos: the line count not reduced by one.
pos_to_lsp_pos_count_pieces(input, content) ==
    IF ~split_at_ok(content, input) THEN PositionAbort
    ELSE LET pieces == split_nl(split_at_0(content, input))
         IN  Position(Len(pieces), Len(pieces[Len(pieces)]))

pos_to_lsp_pos(input, content) ==
    IF ~split_at_ok(content, input) THEN PositionAbort
    ELSE LET pieces == split_nl(split_at_0(content, input))
         IN  Position(Len(pieces) - 1, Len(pieces[Len(pieces)]))

\* Mutant of lsp_pos_to_pos: the separator before the target line is left out.
lsp_pos_to_pos_no_separator(line, character, content) ==
    LET lines == split_nl(content)
    IN  IF line >= Len(lines) THEN Offset(Len(content))
        ELSE LET target == lines[line + 1]
             IN  IF ~split_at_ok(target, character) THEN OffsetAbort
                 ELSE LET up_to == join_nl(SubSeq(lines, 1, line))
                                   \o split_at_0(target, character)
                      IN  Offset(Len(up_to))

lsp_pos_to_pos(line, character, content) ==
    LET lines == split_nl(content)
    IN  IF line >= Len(lines) THEN Offset(Len(content))
        ELSE LET target == lines[line + 1]
             IN  IF ~split_at_ok(target, character) THEN OffsetAbort
                 ELSE LET up_to == join_nl(SubSeq(lines, 1, line))
                                   \o (IF line > 0 THEN <<NL>> ELSE <<>>)
                                   \o split_at_0(target, character)
                      IN  Offset(Len(up_to))

-----------------------------------------------------------------------------
(* The position bridge harness: a text is fixed, then either function is   *)
(* called with any argument, and the other one may be applied to the       *)
(* result.                                                                 *)

PosAlphabet == {"a", NL, LeadByte, ContByte}

RECURSIVE SeqsUpTo(_, _)
SeqsUpTo(S, n) ==
    IF n = 0 THEN {<<>>}
    ELSE LET shorter == SeqsUpTo(S, n - 1)
         IN  shorter \cup {Append(s, x) : s \in {t \in shorter : Len(t) = n - 1}, x \in S}

PosTexts == {s \in SeqsUpTo(PosAlphabet, MaxTextLen) : WellFormed(s)}

PosInit ==
    /\ p_text \in PosTexts
    /\ p_fn = "none"
    /\ p_in = NoIn
    /\ p_out = NoOut
    /\ p_back = NoBack

CallPosToLspPos ==
    \E o \in 0..Len(p_text) :
        LET r == pos_to_lsp_pos(o, p_text)
        IN  /\ p_fn' = "pos_to_lsp_pos"
            /\ p_in' = [off |-> o, line |-> 0, character |-> 0]
            /\ p_out' = [abort |-> r.abort, off |-> 0, line |-> r.line, character |-> r.character]
            /\ p_back' = NoBack
            /\ UNCHANGED <<p_text, notPos>>

CallLspPosToPos ==
    \E l \in 0..MaxLineArg, c \in 0..MaxColArg :
        LET r == lsp_pos_to_pos(l, c, p_text)
        IN  /\ p_fn' = "lsp_pos_to_pos"
            /\ p_in' = [off |-> 0, line |-> l, character |-> c]
            /\ p_out' = [abort |-> r.abort, off |-> r.off, line |-> 0, character |-> 0]
            /\ p_back' = NoBack
            /\ UNCHANGED <<p_text, notPos>>

\* The inverse function applied to the result of the last call.
ConvertBack ==
    /\ p_fn # "none"
    /\ ~p_out.abort
    /\ ~p_back.done
    /\ IF p_fn = "pos_to_lsp_pos"
       THEN LET r == lsp_pos_to_pos(p_out.line, p_out.character, p_text)
            IN  p_back' = [done |-> TRUE, abort |-> r.abort, off |-> r.off,
                           line |-> 0, character |-> 0]
       ELSE LET r == pos_to_lsp_pos(p_out.off, p_text)
            IN  p_back' = [done |-> TRUE, abort |-> r.abort, off |-> 0,
                           line |-> r.line, character |-> r.character]
    /\ UNCHANGED <<p_text, p_fn, p_in, p_out, notPos>>

PosNext == CallPosToLspPos \/ CallLspPosToPos \/ ConvertBack


-----------------------------------------------------------------------------
(* Properties of the position bridge, checked under SpecPos *)

\* The specification-level reading of a position: the number of newline bytes
\* strictly before offset o, and the distance from the byte after the last of
\* them (or from the start of the text) to o.
NewlinesBefore(s, o) == Cardinality({i \in 1..o : s[i] = NL})
LineStart(s, o) ==
    LET nls == {i \in 1..o : s[i] = NL}
    IN  IF nls = {} THEN 0 ELSE CHOOSE i \in nls : \A j \in nls : j <= i

NumLines(s) == NewlinesBefore(s, Len(s)) + 1
\* The offsets of the first byte and past the last byte of line l (0-based).
LineBegin(s, l) ==
    IF l = 0 THEN 0
    ELSE CHOOSE o \in 1..Len(s) : s[o] = NL /\ NewlinesBefore(s, o) = l
LineEnd(s, l) ==
    IF l = NumLines(s) - 1 THEN Len(s)
    ELSE (CHOOSE o \in 1..Len(s) : s[o] = NL /\ NewlinesBefore(s, o) = l + 1) - 1
LineLen(s, l) == LineEnd(s, l) - LineBegin(s, l)

HasMultiByte(s) == \E i \in 1..Len(s) : s[i] = LeadByte

BackIsOffset(o) == p_back.done => (~p_back.abort /\ p_back.off = o)
BackIsPosition(l, c) ==
    p_back.done => (~p_back.abort /\ p_back.line = l /\ p_back.character = c)

\* C2 (as stated): for every text and every offset o with 0 <= o <= length(text),
\* lsp_pos_to_pos(pos_to_lsp_pos(o, text), text) = o.
C2_RoundTripEveryOffset ==
    p_fn = "pos_to_lsp_pos" => (~p_out.abort /\ BackIsOffset(p_in.off))

\* C2 (amended): for every text and every offset o with 0 <= o <= length(text)
\* that lies on a character boundary of the text, pos_to_lsp_pos(o, text)
\* returns and lsp_pos_to_pos of its result is o.
C2_RoundTripBoundaryOffset ==
    (p_fn = "pos_to_lsp_pos" /\ is_char_boundary(p_text, p_in.off))
        => (~p_out.abort /\ BackIsOffset(p_in.off))

C2_Witness ==
    /\ p_fn = "pos_to_lsp_pos"
    /\ p_back.done /\ ~p_back.abort
    /\ HasMultiByte(p_text)
    /\ p_out.line > 0 /\ p_out.character > 0
    /\ p_back.off = p_in.off

\* The positions C3 is about: a line of the text and a column within it.
InDocument(s, l, c) == l < NumLines(s) /\ c <= LineLen(s, l)
OnLineBoundary(s, l, c) ==
    InDocument(s, l, c) /\ is_char_boundary(s, LineBegin(s, l) + c)

\* C3 (as stated): for every text and every position p = (line, column) with
\* line < number of lines and column <= length of that line,
\* pos_to_lsp_pos(lsp_pos_to_pos(p, text), text) = p.
C3_RoundTripEveryPosition ==
    (p_fn = "lsp_pos_to_pos" /\ InDocument(p_text, p_in.line, p_in.character))
        => (~p_out.abort /\ BackIsPosition(p_in.line, p_in.character))

\* C3 restricted to the positions whose column lies on a character boundary
\* of its line: there the round trip holds.
C3_RoundTripBoundaryPosition ==
    (p_fn = "lsp_pos_to_pos" /\ OnLineBoundary(p_text, p_in.line, p_in.character))
        => (~p_out.abort /\ BackIsPosition(p_in.line, p_in.character))

C3_Witness ==
    /\ p_fn = "lsp_pos_to_pos"
    /\ p_in.line > 0 /\ p_in.character > 0
    /\ OnLineBoundary(p_text, p_in.line, p_in.character)
    /\ p_back.done /\ ~p_back.abort
    /\ p_back.line = p_in.line /\ p_back.character = p_in.character

\* C4: lsp_pos_to_pos is total and clamping: for every text and (line, column)
\* it returns an offset in [0, length(text)]: the text length when the line is
\* out of range, the end of the target line when the column overruns it.
C4_TotalAndClamping ==
    p_fn = "lsp_pos_to_pos" =>
        /\ ~p_out.abort
        /\ p_out.off \in 0..Len(p_text)
        /\ p_in.line >= NumLines(p_text) => p_out.off = Len(p_text)
        /\ (p_in.line < NumLines(p_text) /\ p_in.character > LineLen(p_text, p_in.line))
              => p_out.off = LineEnd(p_text, p_in.line)

\* C5 (as stated): for every text and offset o <= length(text), pos_to_lsp_pos
\* returns line = the number of newlines strictly before o and character =
\* o minus the offset just after the last newline before o.
C5_PositionOfEveryOffset ==
    p_fn = "pos_to_lsp_pos" =>
        /\ ~p_out.abort
        /\ p_out.line = NewlinesBefore(p_text, p_in.off)
        /\ p_out.character = p_in.off - LineStart(p_text, p_in.off)

\* C5 (amended): the same for every offset o <= length(text) that lies on a
\* character boundary of the text.
C5_PositionOfBoundaryOffset ==
    (p_fn = "pos_to_lsp_pos" /\ is_char_boundary(p_text, p_in.off)) =>
        /\ ~p_out.abort
        /\ p_out.line = NewlinesBefore(p_text, p_in.off)
        /\ p_out.character = p_in.off - LineStart(p_text, p_in.off)

C5_Witness ==
    /\ p_fn = "pos_to_lsp_pos"
    /\ ~p_out.abort
    /\ p_out.line = 2 /\ p_out.character = 1
    /\ p_in.off = Len(p_text)


-----------------------------------------------------------------------------
(* lexer.rs: the token patterns.  A pattern is modelled by the length of   *)
(* its longest match at position i (1-based) of the byte sequence s, 0     *)
(* when it does not match there.  A regex whose language is finite is      *)
(* written as the set of its words.                                        *)

Lower == {"a", "b", "c", "d", "e", "f", "g", "h", "i", "j", "k", "l", "m", "n", "o", "p", "q", "r", "s", "t", "u", "v", "w", "x", "y", "z"}
Upper == {"A", "B", "C", "D", "E", "F", "G", "H", "I", "J", "K", "L", "M", "N", "O", "P", "Q", "R", "S", "T", "U", "V", "W", "X", "Y", "Z"}
Digit == {"0", "1", "2", "3", "4", "5", "6", "7", "8", "9"}


Max(a, b) == IF a >= b THEN a ELSE b
Longest(S) == IF S = {} THEN 0 ELSE CHOOSE n \in S : \A m \in S : m <= n

\* The byte at position i, "" past the end of the input.
At(s, i) == IF i >= 1 /\ i <= Len(s) THEN s[i] ELSE ""

\* The literal w at position i.
LitLen(s, i, w) ==
    IF /\ i + Len(w) - 1 <= Len(s)
       /\ \A k \in 1..Len(w) : s[i + k - 1] = w[k]
    THEN Len(w) ELSE 0

\* The longest word of the finite language W at position i.
AltLen(s, i, W) == Longest({LitLen(s, i, w) : w \in W})

\* The number of consecutive bytes from position i on that are in the class C
\* (a greedy C*), resp. that are bytes other than those in C ([^C]*).
RECURSIVE Run(_, _, _)
Run(s, i, C) == IF i <= Len(s) /\ s[i] \in C THEN 1 + Run(s, i + 1, C) ELSE 0

RECURSIVE RunExcept(_, _, _)
RunExcept(s, i, C) == IF i <= Len(s) /\ s[i] \notin C THEN 1 + RunExcept(s, i + 1, C) ELSE 0

\* prefix C+ : at least one byte of class C after the literal prefix.
PrefixRun1(s, i, prefix, C) ==
    LET p == LitLen(s, i, prefix)
        n == Run(s, i + Len(prefix), C)
    IN  IF (Len(prefix) = 0 \/ p > 0) /\ n > 0 THEN Len(prefix) + n ELSE 0

\* open C* close, for a close that is not in C; open [^close]* close.
Delimited(s, i, open, C, close) ==
    LET n == Run(s, i + Len(open), C)
    IN  IF LitLen(s, i, open) > 0 /\ LitLen(s, i + Len(open) + n, close) > 0
        THEN Len(open) + n + Len(close) ELSE 0

DelimitedExcept(s, i, open, close) ==
    LET n == RunExcept(s, i + Len(open), {close[1]})
    IN  IF LitLen(s, i, open) > 0 /\ LitLen(s, i + Len(open) + n, close) > 0
        THEN Len(open) + n + Len(close) ELSE 0


(* The literals the validators compare token contents with *)

S_class == <<".", "c", "l", "a", "s", "s">>
S_super == <<".", "s", "u", "p", "e", "r">>
S_implements == <<".", "i", "m", "p", "l", "e", "m", "e", "n", "t", "s">>
S_source == <<".", "s", "o", "u", "r", "c", "e">>
S_method == <<".", "m", "e", "t", "h", "o", "d">>
S_end_method == <<".", "e", "n", "d", " ", "m", "e", "t", "h", "o", "d">>
S_static == <<"s", "t", "a", "t", "i", "c">>
S_final == <<"f", "i", "n", "a", "l">>
S_synthetic == <<"s", "y", "n", "t", "h", "e", "t", "i", "c">>
S_constructor == <<"c", "o", "n", "s", "t", "r", "u", "c", "t", "o", "r">>
S_clinit == <<"<", "c", "l", "i", "n", "i", "t", ">", "(">>
S_init == <<"<", "i", "n", "i", "t", ">", "(">>
S_rparen == <<")">>
S_V == <<"V">>
S_return_void == <<"r", "e", "t", "u", "r", "n", "-", "v", "o", "i", "d">>
S_return_object == <<"r", "e", "t", "u", "r", "n", "-", "o", "b", "j", "e", "c", "t">>

(* The patterns, in declaration order *)

\* lexer.rs:14 #[regex(r"public|private|protected")]
W_Visibility ==
    { <<"p", "u", "b", "l", "i", "c">>,
      <<"p", "r", "i", "v", "a", "t", "e">>,
      <<"p", "r", "o", "t", "e", "c", "t", "e", "d">> }

\* lexer.rs:17 #[regex(r"static|constructor|final|synthetic")]
W_Modifier ==
    { <<"s", "t", "a", "t", "i", "c">>,
      <<"c", "o", "n", "s", "t", "r", "u", "c", "t", "o", "r">>,
      <<"f", "i", "n", "a", "l">>,
      <<"s", "y", "n", "t", "h", "e", "t", "i", "c">> }

\* lexer.rs:29 #[regex(r"\.(method|end method)")]
W_Method ==
    { <<".", "m", "e", "t", "h", "o", "d">>,
      <<".", "e", "n", "d", " ", "m", "e", "t", "h", "o", "d">> }

\* lexer.rs:32 #[regex(r"\.(field|end field)")]
W_Field ==
    { <<".", "f", "i", "e", "l", "d">>,
      <<".", "e", "n", "d", " ", "f", "i", "e", "l", "d">> }

\* lexer.rs:35 #[regex(r":(goto|cond)_\d+")], the part before the digits
W_LabelPrefix ==
    { <<":", "g", "o", "t", "o", "_">>,
      <<":", "c", "o", "n", "d", "_">> }

\* lexer.rs:38
W_Directive ==
    { <<".", "c", "l", "a", "s", "s">>,
      <<".", "s", "o", "u", "r", "c", "e">>,
      <<".", "s", "u", "p", "e", "r">>,
      <<".", "i", "m", "p", "l", "e", "m", "e", "n", "t", "s">>,
      <<".", "l", "o", "c", "a", "l", "s">>,
      <<".", "l", "o", "c", "a", "l">>,
      <<".", "r", "e", "g", "i", "s", "t", "e", "r", "s">>,
      <<".", "l", "i", "n", "e">>,
      <<".", "p", "r", "o", "l", "o", "g", "u", "e">>,
      <<".", "g", "o", "t", "o">> }

\* lexer.rs:41 #[regex(r"invoke-(direct|static|virtual|interface)(/range)?")]
W_Invoke ==
    { <<"i", "n", "v", "o", "k", "e", "-", "d", "i", "r", "e", "c", "t">>,
      <<"i", "n", "v", "o", "k", "e", "-", "d", "i", "r", "e", "c", "t", "/", "r", "a", "n", "g", "e">>,
      <<"i", "n", "v", "o", "k", "e", "-", "s", "t", "a", "t", "i", "c">>,
      <<"i", "n", "v", "o", "k", "e", "-", "s", "t", "a", "t", "i", "c", "/", "r", "a", "n", "g", "e">>,
      <<"i", "n", "v", "o", "k", "e", "-", "v", "i", "r", "t", "u", "a", "l">>,
      <<"i", "n", "v", "o", "k", "e", "-", "v", "i", "r", "t", "u", "a", "l", "/", "r", "a", "n", "g", "e">>,
      <<"i", "n", "v", "o", "k", "e", "-", "i", "n", "t", "e", "r", "f", "a", "c", "e">>,
      <<"i", "n", "v", "o", "k", "e", "-", "i", "n", "t", "e", "r", "f", "a", "c", "e", "/", "r", "a", "n", "g", "e">> }

\* lexer.rs:50 #[regex(r"const-string(/jumbo|)")]
W_ConstString ==
    { <<"c", "o", "n", "s", "t", "-", "s", "t", "r", "i", "n", "g", "/", "j", "u", "m", "b", "o">>,
      <<"c", "o", "n", "s", "t", "-", "s", "t", "r", "i", "n", "g">> }

\* lexer.rs:53 #[regex(r"const/(4|16)")]
W_ConstInt ==
    { <<"c", "o", "n", "s", "t", "/", "4">>,
      <<"c", "o", "n", "s", "t", "/", "1", "6">> }

\* lexer.rs:56 #[regex(r"const(-(class|class)|)")]
W_Const ==
    { <<"c", "o", "n", "s", "t", "-", "c", "l", "a", "s", "s">>,
      <<"c", "o", "n", "s", "t">> }

\* lexer.rs:59 #[regex(r"if-(lt|le|gt|ge|eq|eq|ne|ne)(z|)")]
W_If ==
    { <<"i", "f", "-", "l", "t", "z">>,
      <<"i", "f", "-", "l", "t">>,
      <<"i", "f", "-", "l", "e", "z">>,
      <<"i", "f", "-", "l", "e">>,
      <<"i", "f", "-", "g", "t", "z">>,
      <<"i", "f", "-", "g", "t">>,
      <<"i", "f", "-", "g", "e", "z">>,
      <<"i", "f", "-", "g", "e">>,
      <<"i", "f", "-", "e", "q", "z">>,
      <<"i", "f", "-", "e", "q">>,
      <<"i", "f", "-", "n", "e", "z">>,
      <<"i", "f", "-", "n", "e">> }

\* lexer.rs:62 #[regex(r"iget(-(object|string|wide)|)")]
W_IGet ==
    { <<"i", "g", "e", "t", "-", "o", "b", "j", "e", "c", "t">>,
      <<"i", "g", "e", "t", "-", "s", "t", "r", "i", "n", "g">>,
      <<"i", "g", "e", "t", "-", "w", "i", "d", "e">>,
      <<"i", "g", "e", "t">> }

\* lexer.rs:65 #[regex(r"sget(-(object|string|wide)|)")]
W_SGet ==
    { <<"s", "g", "e", "t", "-", "o", "b", "j", "e", "c", "t">>,
      <<"s", "g", "e", "t", "-", "s", "t", "r", "i", "n", "g">>,
      <<"s", "g", "e", "t", "-", "w", "i", "d", "e">>,
      <<"s", "g", "e", "t">> }

\* lexer.rs:68 #[regex(r"iput(-(object|string|wide)|)")]
W_IPut ==
    { <<"i", "p", "u", "t", "-", "o", "b", "j", "e", "c", "t">>,
      <<"i", "p", "u", "t", "-", "s", "t", "r", "i", "n", "g">>,
      <<"i", "p", "u", "t", "-", "w", "i", "d", "e">>,
      <<"i", "p", "u", "t">> }

\* lexer.rs:71 #[regex(r"sput(-(object|string|wide)|)")]
W_SPut ==
    { <<"s", "p", "u", "t", "-", "o", "b", "j", "e", "c", "t">>,
      <<"s", "p", "u", "t", "-", "s", "t", "r", "i", "n", "g">>,
      <<"s", "p", "u", "t", "-", "w", "i", "d", "e">>,
      <<"s", "p", "u", "t">> }

\* lexer.rs:74 #[regex(r"move(-(result(-object|)|)|)")]
W_Move ==
    { <<"m", "o", "v", "e", "-", "r", "e", "s", "u", "l", "t", "-", "o", "b", "j", "e", "c", "t">>,
      <<"m", "o", "v", "e", "-", "r", "e", "s", "u", "l", "t">>,
      <<"m", "o", "v", "e", "-">>,
      <<"m", "o", "v", "e">> }

\* lexer.rs:77 #[regex(r"return(-(void|object|wide)|)")]
W_Return ==
    { <<"r", "e", "t", "u", "r", "n", "-", "v", "o", "i", "d">>,
      <<"r", "e", "t", "u", "r", "n", "-", "o", "b", "j", "e", "c", "t">>,
      <<"r", "e", "t", "u", "r", "n", "-", "w", "i", "d", "e">>,
      <<"r", "e", "t", "u", "r", "n">> }

\* lexer.rs:83 #[regex(r"(-|)(0x|)\d+")], the part before the digits
W_NumberPrefix ==
    { <<>>,
      <<"-">>,
      <<"0", "x">>,
      <<"-", "0", "x">> }

\* lexer.rs:23 [a-zA-Z0-9\$_\-\./]
ClassChars == Lower \cup Upper \cup Digit \cup {"$", "_", "-", ".", "/"}
\* lexer.rs:86 [a-z/a-zA-Z0-9_]
MacroChars == Lower \cup Upper \cup Digit \cup {"/", "_"}
\* lexer.rs:98, 101 [a-zA-Z0-9\$<>]
NameChars == Lower \cup Upper \cup Digit \cup {"$", "<", ">"}
\* lexer.rs:104 [a-zA-Z0-9\$]
FieldChars == Lower \cup Upper \cup Digit \cup {"$"}
\* lexer.rs:95 (V|Z|B|S|C|I|J|F|D)
BuiltinChars == {"V", "Z", "B", "S", "C", "I", "J", "F", "D"}


\* The variants of TokenType in declaration order with the length each one's
\* pattern matches at position i.
Patterns(s, i) == <<
    [token_type |-> "NewLine",       n |-> LitLen(s, i, <<NL>>)],
    [token_type |-> "Comment",       n |-> IF At(s, i) = "#" THEN 1 + RunExcept(s, i + 1, {NL}) ELSE 0],
    [token_type |-> "Visibility",    n |-> AltLen(s, i, W_Visibility)],
    [token_type |-> "Modifier",      n |-> AltLen(s, i, W_Modifier)],
    [token_type |-> "Space",         n |-> Run(s, i, {" ", "\t"})],
    [token_type |-> "Class",         n |-> Delimited(s, i, <<"L">>, ClassChars, <<";">>)],
    [token_type |-> "Register",      n |-> Max(PrefixRun1(s, i, <<"p">>, Digit), PrefixRun1(s, i, <<"v">>, Digit))],
    [token_type |-> "Method",        n |-> AltLen(s, i, W_Method)],
    [token_type |-> "Field",         n |-> AltLen(s, i, W_Field)],
    [token_type |-> "Label",         n |-> Longest({PrefixRun1(s, i, w, Digit) : w \in W_LabelPrefix})],
    [token_type |-> "Directive",     n |-> AltLen(s, i, W_Directive)],
    [token_type |-> "Invoke",        n |-> AltLen(s, i, W_Invoke)],
    [token_type |-> "CheckCast",     n |-> LitLen(s, i, <<"c", "h", "e", "c", "k", "-", "c", "a", "s", "t">>)],
    [token_type |-> "NewInstance",   n |-> LitLen(s, i, <<"n", "e", "w", "-", "i", "n", "s", "t", "a", "n", "c", "e">>)],
    [token_type |-> "ConstString",   n |-> AltLen(s, i, W_ConstString)],
    [token_type |-> "ConstInt",      n |-> AltLen(s, i, W_ConstInt)],
    [token_type |-> "Const",         n |-> AltLen(s, i, W_Const)],
    [token_type |-> "If",            n |-> AltLen(s, i, W_If)],
    [token_type |-> "IGet",          n |-> AltLen(s, i, W_IGet)],
    [token_type |-> "SGet",          n |-> AltLen(s, i, W_SGet)],
    [token_type |-> "IPut",          n |-> AltLen(s, i, W_IPut)],
    [token_type |-> "SPut",          n |-> AltLen(s, i, W_SPut)],
    [token_type |-> "Move",          n |-> AltLen(s, i, W_Move)],
    [token_type |-> "Return",        n |-> AltLen(s, i, W_Return)],
    [token_type |-> "String",        n |-> DelimitedExcept(s, i, <<"\"">>, <<"\"">>)],
    [token_type |-> "Number",        n |-> Longest({PrefixRun1(s, i, w, Digit) : w \in W_NumberPrefix})],
    [token_type |-> "TreecordMacro", n |-> Delimited(s, i, <<"{", "{">>, MacroChars, <<"}", "}">>)],
    [token_type |-> "Brace",         n |-> IF At(s, i) \in {"{", "}"} THEN 1 ELSE 0],
    [token_type |-> "Paren",         n |-> IF At(s, i) \in {"(", ")"} THEN 1 ELSE 0],
    [token_type |-> "BuiltinType",   n |-> IF At(s, i) \in BuiltinChars THEN 1 ELSE 0],
    [token_type |-> "MethodCall",    n |-> LET m == PrefixRun1(s, i, <<"-", ">">>, NameChars)
                                           IN  IF m > 0 /\ At(s, i + m) = "(" THEN m + 1 ELSE 0],
    [token_type |-> "MethodName",    n |-> LET m == Run(s, i, NameChars)
                                           IN  IF m > 0 /\ At(s, i + m) = "(" THEN m + 1 ELSE 0],
    [token_type |-> "FieldName",     n |-> LET m == Run(s, i, FieldChars)
                                           IN  IF m > 0 /\ At(s, i + m) = ":" THEN m + 1 ELSE 0],
    [token_type |-> "ArrayOp",       n |-> LitLen(s, i, <<"[">>)],
    [token_type |-> "RangeOp",       n |-> LitLen(s, i, <<".", ".">>)],
    [token_type |-> "CommaOp",       n |-> LitLen(s, i, <<",">>)] >>

-----------------------------------------------------------------------------
(* lexer.rs: the derived lexer and lex_str *)

\* The longest match of any pattern at position i; among patterns of that
\* length the first declared; unmatched input gives an Error token of one
\* character (Lexer::error advances to the next character boundary).
ErrorLen(s, i) ==
    CHOOSE n \in 1..(Len(s) - i + 1) :
        /\ is_char_boundary(s, i - 1 + n)
        /\ \A m \in 1..(n - 1) : ~is_char_boundary(s, i - 1 + m)

NextToken(s, i) ==
    LET ps   == Patterns(s, i)
        best == Longest({ps[k].n : k \in DOMAIN ps})
    IN  IF best = 0
        THEN [token_type |-> "Error", n |-> ErrorLen(s, i)]
        ELSE ps[CHOOSE k \in DOMAIN ps :
                    ps[k].n = best /\ \A j \in 1..(k - 1) : ps[j].n < best]

\* helper.rs: range_to_lsp_range(start..end, content)
range_to_lsp_range(start, end, content) ==
    [start |-> pos_to_lsp_pos(start, content), end |-> pos_to_lsp_pos(end, content)]

\* Mutant of lex_slice: the slice starts one byte late.
lex_slice_late(s, start, end) == SubSeq(s, start + 2, end)

\* lex.slice(): the bytes of the span start..end (0-based, end exclusive).
lex_slice(s, start, end) == SubSeq(s, start + 1, end)

\* The Token pushed for the span start..end.
Token(s, start, end, token_type) ==
    [range      |-> range_to_lsp_range(start, end, s),
     content    |-> lex_slice(s, start, end),
     token_type |-> token_type]

RangePanics(range) == range.start.abort \/ range.end.abort

RECURSIVE LexFrom(_, _)
LexFrom(s, end) ==
    IF end >= Len(s) THEN <<>>
    ELSE LET t == NextToken(s, end + 1)
         IN  <<Token(s, end, end + t.n, t.token_type)>> \o LexFrom(s, end + t.n)

lex_str(content) == LexFrom(content, 0)

\* A panic inside lex_str (range_to_lsp_range on a span that is not on
\* character boundaries).
LexPanics(tokens) == \E k \in DOMAIN tokens : RangePanics(tokens[k].range)

-----------------------------------------------------------------------------
(* The tokenizer run step by step: one pass of the while loop of lex_str   *)
(* per step.                                                               *)

\* A text is a concatenation of at most MaxLexChunks of these pieces.
LexChunks ==
    { <<".", "m", "e", "t", "h", "o", "d">>, <<"s", "t", "a", "t", "i", "c">>,
      <<"L", "a">>, <<";">>, <<" ">>, <<NL>>, <<"#">>, <<"\"">>,
      <<"v">>, <<"1">>, <<"(">>, <<LeadByte, ContByte>> }

RECURSIVE Concats(_, _)
Concats(C, n) ==
    IF n = 0 THEN {<<>>}
    ELSE LET shorter == Concats(C, n - 1)
         IN  shorter \cup {s \o c : s \in shorter, c \in C}

LexTexts == Concats(LexChunks, MaxLexChunks)

LexInit ==
    /\ lx_content \in LexTexts
    /\ lx_end = 0
    /\ lx_output = <<>>
    /\ lx_pc = "lexing"

\* while let Some(token_type) = lex.next() { output.push(Token { .. }) }
LexPush ==
    /\ lx_pc = "lexing"
    /\ lx_end < Len(lx_content)
    /\ LET t     == NextToken(lx_content, lx_end + 1)
           token == Token(lx_content, lx_end, lx_end + t.n, t.token_type)
       IN  /\ lx_end' = lx_end + t.n
           /\ IF RangePanics(token.range)
              THEN lx_pc' = "panicked" /\ UNCHANGED lx_output
              ELSE lx_pc' = "lexing" /\ lx_output' = Append(lx_output, token)
    /\ UNCHANGED <<lx_content, notLex>>

\* lex.next() is None at the end of the input: the loop ends, output is returned.
LexReturn ==
    /\ lx_pc = "lexing"
    /\ lx_end >= Len(lx_content)
    /\ lx_pc' = "returned"
    /\ UNCHANGED <<lx_content, lx_end, lx_output, notLex>>

LexNext == LexPush \/ LexReturn


-----------------------------------------------------------------------------
(* Properties of the tokenizer, checked under SpecLex *)

RECURSIVE Flatten(_)
Flatten(ss) == IF Len(ss) = 0 THEN <<>> ELSE ss[1] \o Flatten(Tail(ss))

Contents(tokens) == [k \in DOMAIN tokens |-> tokens[k].content]

\* C1: for every input text lex_str returns a token sequence whose contents,
\* concatenated in order, equal the input exactly (at every point of the loop
\* they equal the input consumed so far and no token is empty), unmatched
\* text appears as Error tokens, and lexing never fails.
C1_Totality ==
    /\ lx_pc # "panicked"
    /\ Flatten(Contents(lx_output)) = SubSeq(lx_content, 1, lx_end)
    /\ \A k \in DOMAIN lx_output : Len(lx_output[k].content) >= 1
    /\ lx_pc = "returned" => Flatten(Contents(lx_output)) = lx_content

C1_Witness ==
    /\ lx_pc = "returned"
    /\ \E k \in DOMAIN lx_output : lx_output[k].token_type = "Error"
    /\ \E k \in DOMAIN lx_output : lx_output[k].token_type = "Method"
    /\ \E k \in DOMAIN lx_output : lx_output[k].token_type = "NewLine"
    /\ Flatten(Contents(lx_output)) = lx_content

-----------------------------------------------------------------------------
(* helper.rs, lexer.rs: diagnostics *)

None    == [some |-> FALSE, val |-> <<>>]
Some(x) == [some |-> TRUE, val |-> x]

Diagnostic(range, message, severity) ==
    [range |-> range, severity |-> severity, message |-> message]

\* A panic (unwrap on None, index out of bounds) inside a call that returns
\* diagnostics is carried by this marker; the caller aborts when it sees it.
PanicDiagnostic ==
    [range |-> [start |-> PositionAbort, end |-> PositionAbort],
     severity |-> "panic", message |-> "panic"]

Panics(diags) == \E k \in DOMAIN diags : diags[k].severity = "panic"

\* Token::to_diagnostic
to_diagnostic(token, message, severity) == Diagnostic(token.range, message, severity)

\* tokens.first().unwrap() and tokens.last().unwrap() panic on an empty slice.
tokens_to_diagnostic(tokens, message, severity) ==
    IF Len(tokens) = 0 THEN PanicDiagnostic
    ELSE Diagnostic([start |-> tokens[1].range.start, end |-> tokens[Len(tokens)].range.end],
                    message, severity)

\* helper.rs: trim_space_tokens, the loop from token k on.
RECURSIVE TrimFrom(_, _, _, _)
TrimFrom(tokens, k, output, space_buffer) ==
    IF k > Len(tokens) THEN output
    ELSE IF tokens[k].token_type = "Space"
         THEN TrimFrom(tokens, k + 1, output,
                       IF output # <<>> THEN Append(space_buffer, tokens[k]) ELSE space_buffer)
         ELSE TrimFrom(tokens, k + 1, (output \o space_buffer) \o <<tokens[k]>>, <<>>)

\* Mutant of trim_space_tokens: only the leading Space tokens are dropped.
trim_space_tokens_leading_only(tokens) ==
    IF \A k \in DOMAIN tokens : tokens[k].token_type = "Space" THEN <<>>
    ELSE SubSeq(tokens,
                CHOOSE a \in DOMAIN tokens :
                    /\ tokens[a].token_type # "Space"
                    /\ \A k \in 1..(a - 1) : tokens[k].token_type = "Space",
                Len(tokens))

trim_space_tokens(tokens) == TrimFrom(tokens, 1, <<>>, <<>>)

-----------------------------------------------------------------------------
(* validation/directives/header.rs *)

HeaderValidatorDefault ==
    [top_line           |-> None,
     super_declaration  |-> None,
     class_declaration  |-> None,
     source_declaration |-> None,
     blank_line         |-> FALSE,
     last_token         |-> None]

\* HeaderValidator::validate_token: the state after the call (it returns no
\* diagnostics).
HeaderValidateToken(h, token) ==
    [h EXCEPT
        !.blank_line = IF /\ token.token_type = "NewLine"
                          /\ h.last_token.some
                          /\ h.last_token.val.token_type = "NewLine"
                       THEN TRUE ELSE @,
        !.last_token = IF token.token_type # "Space" THEN Some(token) ELSE @]

\* validate_class: the loop from token idx (1-based) on.  st holds the
\* locals vsblty_decl, final_decl, synthc_decl, stage and the diagnostics.
ClassStep(st, idx, token) ==
    IF idx = 1 THEN st
    ELSE IF idx = 2 THEN
        IF token.token_type # "Space"
        THEN [st EXCEPT !.diags = Append(@, to_diagnostic(token, "Space expected.", "Error"))]
        ELSE st
    ELSE IF st.stage = "Modifier" THEN
        CASE token.token_type = "Visibility" ->
                IF st.vsblty_decl.some
                THEN [st EXCEPT !.diags = @ \o
                        <<to_diagnostic(st.vsblty_decl.val, "Visibility modifier defined here.", "Hint"),
                          to_diagnostic(token, "Visibility modifier already defined.", "Error")>>]
                ELSE [st EXCEPT !.vsblty_decl = Some(token)]
          [] token.token_type = "Modifier" ->
                IF token.content = S_static
                THEN [st EXCEPT !.diags = Append(@,
                        to_diagnostic(token, "Class cannot be defined as static.", "Error"))]
                ELSE IF token.content = S_final
                THEN IF st.final_decl.some
                     THEN [st EXCEPT !.diags = @ \o
                             <<to_diagnostic(st.final_decl.val, "Final modifier defined here.", "Hint"),
                               to_diagnostic(token, "Final modifier already defined.", "Error")>>]
                     ELSE [st EXCEPT !.final_decl = Some(token)]
                ELSE IF token.content = S_synthetic
                THEN IF st.synthc_decl.some
                     THEN [st EXCEPT !.diags = @ \o
                             <<to_diagnostic(st.synthc_decl.val, "Synthetic modifier defined here.", "Hint"),
                               to_diagnostic(token, "Synthetic modifier already defined.", "Error")>>]
                     ELSE [st EXCEPT !.synthc_decl = Some(token)]
                ELSE st
          [] token.token_type = "Class" -> [st EXCEPT !.stage = "Other"]
          [] OTHER -> st
    ELSE IF token.token_type # "Space"
         THEN [st EXCEPT !.diags = Append(@, to_diagnostic(token, "New line expected.", "Error"))]
         ELSE st

RECURSIVE ClassLoop(_, _, _)
ClassLoop(line, idx, st) ==
    IF idx > Len(line) THEN st
    ELSE ClassLoop(line, idx + 1, ClassStep(st, idx, line[idx]))

validate_class(line) ==
    ClassLoop(line, 1,
              [vsblty_decl |-> None, final_decl |-> None, synthc_decl |-> None,
               stage |-> "Modifier", diags |-> <<>>]).diags

\* The usage message format!("'{} {}'", line[0].content, ..) of validate_simple
\* for the three directives it is called for.
UsageMessage(content) ==
    IF content = S_source THEN "'.source \"FileName\"'"
    ELSE IF content = S_super THEN "'.super Lclass/Name;'"
    ELSE "'.implements Lclass/Name;'"

\* Mutant of SimpleStep: Space tokens after the operand are let through.
SimpleStep_spaces_ignored(line, idx) ==
    LET token == line[idx]
    IN  IF idx = 1 THEN <<>>
        ELSE IF idx = 2 THEN
            IF token.token_type # "Space"
            THEN <<to_diagnostic(token, "Space expected.", "Error")>> ELSE <<>>
        ELSE IF idx = 3 THEN
            IF token.token_type # "Class" /\ line[1].content # S_source
            THEN <<to_diagnostic(token, "Class expected.", "Error")>>
            ELSE IF token.token_type # "String" /\ line[1].content = S_source
            THEN <<to_diagnostic(token, "String expected.", "Error")>>
            ELSE <<>>
        ELSE IF token.token_type = "Space" THEN <<>>
        ELSE <<to_diagnostic(token, "New line expected.", "Error")>>

SimpleStep(line, idx) ==
    LET token == line[idx]
    IN  IF idx = 1 THEN <<>>
        ELSE IF idx = 2 THEN
            IF token.token_type # "Space"
            THEN <<to_diagnostic(token, "Space expected.", "Error")>> ELSE <<>>
        ELSE IF idx = 3 THEN
            IF token.token_type # "Class" /\ line[1].content # S_source
            THEN <<to_diagnostic(token, "Class expected.", "Error")>>
            ELSE IF token.token_type # "String" /\ line[1].content = S_source
            THEN <<to_diagnostic(token, "String expected.", "Error")>>
            ELSE <<>>
        ELSE <<to_diagnostic(token, "New line expected.", "Error")>>

RECURSIVE SimpleLoop(_, _)
SimpleLoop(line, idx) ==
    IF idx > Len(line) THEN <<>>
    ELSE SimpleStep(line, idx) \o SimpleLoop(line, idx + 1)

validate_simple(line) ==
    IF Len(line) = 0 THEN <<PanicDiagnostic>>
    ELSE IF Len(line) < 3
    THEN <<tokens_to_diagnostic(line, UsageMessage(line[1].content), "Error")>>
    ELSE SimpleLoop(line, 1)

\* Mutant of AlreadyDeclared: the Error at the new line without the Hint at
\* the stored one.
AlreadyDeclared_error_only(stored, line, name) ==
    <<tokens_to_diagnostic(line, name \o " already declared.", "Error")>>

\* The "already declared" pair: a Hint at the stored line, an Error at the new one.
AlreadyDeclared(stored, line, name) ==
    <<tokens_to_diagnostic(stored, name \o " declared here.", "Hint"),
      tokens_to_diagnostic(line, name \o " already declared.", "Error")>>

\* HeaderValidator::validate_line, the match on the directive of a line
\* that has a first token.
HeaderDirective(h, line) ==
    IF line[1].token_type # "Directive" THEN [state |-> h, diags |-> <<>>]
    ELSE IF line[1].content = S_class THEN
        IF h.class_declaration.some
        THEN [state |-> h,
              diags |-> AlreadyDeclared(h.class_declaration.val, line, "Class")]
        ELSE [state |-> [h EXCEPT !.class_declaration = Some(line)],
              diags |-> validate_class(line)]
    ELSE IF line[1].content = S_super THEN
        IF h.super_declaration.some
        THEN [state |-> h,
              diags |-> AlreadyDeclared(h.super_declaration.val, line, "Super")]
        ELSE [state |-> [h EXCEPT !.super_declaration = Some(line)],
              diags |-> validate_simple(line)]
    ELSE IF line[1].content = S_implements THEN
        [state |-> h, diags |-> validate_simple(line)]
    ELSE IF line[1].content = S_source THEN
        IF h.source_declaration.some
        THEN [state |-> h,
              diags |-> AlreadyDeclared(h.source_declaration.val, line, "Source")]
        ELSE [state |-> [h EXCEPT !.source_declaration = Some(line)],
              diags |-> validate_simple(line)]
    ELSE [state |-> h, diags |-> <<>>]

\* if self.top_line.is_none() { self.top_line = Some(line.into()); }
\* applied to the outcome r of the match.
SetTopLine(r, line) ==
    [state |-> [r.state EXCEPT !.top_line = IF @.some THEN @ ELSE Some(line)],
     diags |-> r.diags]

\* HeaderValidator::validate_line: the state after the call and the
\* diagnostics it returns.  line[0] panics on an empty line.
HeaderValidateLine(h, line) ==
    IF Len(line) = 0 THEN [state |-> h, diags |-> <<PanicDiagnostic>>]
    ELSE SetTopLine(HeaderDirective(h, line), line)

\* Mutant of HeaderValidateEnd: a missing `.super` is reported only when the
\* `.class` is missing too.
HeaderValidateEnd_super_with_class(h) ==
    IF h.top_line.some /\ ~h.class_declaration.some
    THEN <<tokens_to_diagnostic(h.top_line.val, "Missing class directive.", "Error")>>
         \o
         (IF ~h.super_declaration.some
          THEN <<tokens_to_diagnostic(h.top_line.val,
                    "Missing super directive.\nExtend 'Ljava/lang/Object;' by default", "Error")>>
          ELSE <<>>)
    ELSE <<>>

\* HeaderValidator::validate_end
HeaderValidateEnd(h) ==
    IF h.top_line.some
    THEN (IF ~h.class_declaration.some
          THEN <<tokens_to_diagnostic(h.top_line.val, "Missing class directive.", "Error")>>
          ELSE <<>>)
         \o
         (IF ~h.super_declaration.some
          THEN <<tokens_to_diagnostic(h.top_line.val,
                    "Missing super directive.\nExtend 'Ljava/lang/Object;' by default", "Error")>>
          ELSE <<>>)
    ELSE <<>>

-----------------------------------------------------------------------------
(* validation/directives/method.rs *)

ReturnType(kind, name) == [kind |-> kind, name |-> name]

ReturnTypeNone == ReturnType("None", <<>>)
ReturnTypeVoid == ReturnType("Void", <<>>)

MethodDeclaration(is_start, found_return, tokens, return_type) ==
    [is_start |-> is_start, found_return |-> found_return,
     tokens |-> tokens, return_type |-> return_type]

MethodValidatorDefault ==
    [method_decl |-> None, constructor_static |-> None, constructor_virtual |-> None]

\* Appends diagnostics to the locals of a loop.
Push(st, ds) == [st EXCEPT !.diags = @ \o ds]

\* Mutant of validate_method_token: in a method declared with another
\* builtin type, `return-void` and `return-object` are reported like a
\* mismatch.
validate_method_token_builtin_checked(token, validator) ==
    IF ~validator.method_decl.some THEN [state |-> validator, diags |-> <<>>]
    ELSE
    LET method   == [validator.method_decl.val EXCEPT !.found_return = TRUE]
        declared == IF Len(method.tokens) = 0 THEN PanicDiagnostic
                    ELSE to_diagnostic(method.tokens[Len(method.tokens)],
                                       "Return type declared here.", "Hint")
        diags ==
            CASE method.return_type.kind = "None" ->
                    <<to_diagnostic(token,
                        "Unable to get return type from method declaration.", "Information")>>
              [] method.return_type.kind = "Void" ->
                    IF token.content # S_return_void
                    THEN <<declared, to_diagnostic(token, "'return-void' expected.", "Error")>>
                    ELSE <<>>
              [] method.return_type.kind = "Class" ->
                    IF token.content # S_return_object
                    THEN <<declared, to_diagnostic(token, "'return-object' expected.", "Error")>>
                    ELSE <<>>
              [] OTHER ->
                    IF token.content \in {S_return_void, S_return_object}
                    THEN <<declared, to_diagnostic(token, "'return' expected.", "Error")>>
                    ELSE <<>>
    IN  [state |-> [validator EXCEPT !.method_decl = Some(method)], diags |-> diags]

\* Mutant of validate_method_token: a return instruction that does not fit
\* the declared return type is not counted as a return of the block.
validate_method_token_mismatch_uncounted(token, validator) ==
    IF ~validator.method_decl.some THEN [state |-> validator, diags |-> <<>>]
    ELSE
    LET method   == validator.method_decl.val
        declared == IF Len(method.tokens) = 0 THEN PanicDiagnostic
                    ELSE to_diagnostic(method.tokens[Len(method.tokens)],
                                       "Return type declared here.", "Hint")
        diags ==
            CASE method.return_type.kind = "None" ->
                    <<to_diagnostic(token,
                        "Unable to get return type from method declaration.", "Information")>>
              [] method.return_type.kind = "Void" ->
                    IF token.content # S_return_void
                    THEN <<declared, to_diagnostic(token, "'return-void' expected.", "Error")>>
                    ELSE <<>>
              [] method.return_type.kind = "Class" ->
                    IF token.content # S_return_object
                    THEN <<declared, to_diagnostic(token, "'return-object' expected.", "Error")>>
                    ELSE <<>>
              [] OTHER -> <<>>
    IN  [state |-> [validator EXCEPT
                        !.method_decl = Some([method EXCEPT !.found_return = @ \/ diags = <<>>])],
         diags |-> diags]

\* Mutant of validate_method_token: a return instruction in a method of
\* unknown return type is let through without a diagnostic.
validate_method_token_unknown_silent(token, validator) ==
    IF ~validator.method_decl.some THEN [state |-> validator, diags |-> <<>>]
    ELSE
    LET method   == [validator.method_decl.val EXCEPT !.found_return = TRUE]
        declared == IF Len(method.tokens) = 0 THEN PanicDiagnostic
                    ELSE to_diagnostic(method.tokens[Len(method.tokens)],
                                       "Return type declared here.", "Hint")
        diags ==
            CASE method.return_type.kind = "Void" ->
                    IF token.content # S_return_void
                    THEN <<declared, to_diagnostic(token, "'return-void' expected.", "Error")>>
                    ELSE <<>>
              [] method.return_type.kind = "Class" ->
                    IF token.content # S_return_object
                    THEN <<declared, to_diagnostic(token, "'return-object' expected.", "Error")>>
                    ELSE <<>>
              [] OTHER -> <<>>
    IN  [state |-> [validator EXCEPT !.method_decl = Some(method)], diags |-> diags]

\* validate_method_token: the validator after the call and the diagnostics.
\* method.tokens.last().unwrap() panics on an empty token list.
validate_method_token(token, validator) ==
    IF ~validator.method_decl.some THEN [state |-> validator, diags |-> <<>>]
    ELSE
    LET method   == [validator.method_decl.val EXCEPT !.found_return = TRUE]
        declared == IF Len(method.tokens) = 0 THEN PanicDiagnostic
                    ELSE to_diagnostic(method.tokens[Len(method.tokens)],
                                       "Return type declared here.", "Hint")
        diags ==
            CASE method.return_type.kind = "None" ->
                    <<to_diagnostic(token,
                        "Unable to get return type from method declaration.", "Information")>>
              [] method.return_type.kind = "Void" ->
                    IF token.content # S_return_void
                    THEN <<declared, to_diagnostic(token, "'return-void' expected.", "Error")>>
                    ELSE <<>>
              [] method.return_type.kind = "Class" ->
                    IF token.content # S_return_object
                    THEN <<declared, to_diagnostic(token, "'return-object' expected.", "Error")>>
                    ELSE <<>>
              [] OTHER -> <<>>
    IN  [state |-> [validator EXCEPT !.method_decl = Some(method)], diags |-> diags]

\* MethodValidator::validate_token
MethodValidateToken(validator, token) ==
    IF token.token_type = "Return" THEN validate_method_token(token, validator)
    ELSE [state |-> validator, diags |-> <<>>]

\* The "already declared" pair of the modifier stage.
ModifierDeclared(stored, token, name) ==
    <<to_diagnostic(stored, name \o " modifier declared here.", "Hint"),
      to_diagnostic(token, name \o " modifier already declared.", "Error")>>

\* Mutant of NamingDiags: the reserved names are accepted without the
\* constructor modifier.
NamingDiags_reserved_accepted(st, token) ==
    IF st.const_decl.some THEN
        IF st.static_decl.some THEN
            IF token.content # S_clinit
            THEN <<to_diagnostic(st.const_decl.val,
                      "Constuctor modifier declared here.", "Error"),
                   to_diagnostic(st.static_decl.val,
                      "Static modifier declared here.", "Error"),
                   to_diagnostic(token,
                      "Static constuctor must be named '<clinit>'.", "Error")>>
            ELSE <<>>
        ELSE IF token.content # S_init
        THEN <<to_diagnostic(st.const_decl.val,
                  "Constuctor modifier declared here.", "Error"),
               to_diagnostic(token,
                  "Non-static constuctor must be named '<init>'.", "Error")>>
        ELSE <<>>
    ELSE <<>>

\* validate_method_declaration_line, stage Modifiers, for the MethodName
\* token: the cross-check of the name against the modifiers seen so far.
NamingDiags(st, token) ==
    IF st.const_decl.some THEN
        IF st.static_decl.some THEN
            IF token.content # S_clinit
            THEN <<to_diagnostic(st.const_decl.val,
                      "Constuctor modifier declared here.", "Error"),
                   to_diagnostic(st.static_decl.val,
                      "Static modifier declared here.", "Error"),
                   to_diagnostic(token,
                      "Static constuctor must be named '<clinit>'.", "Error")>>
            ELSE <<>>
        ELSE IF token.content # S_init
        THEN <<to_diagnostic(st.const_decl.val,
                  "Constuctor modifier declared here.", "Error"),
               to_diagnostic(token,
                  "Non-static constuctor must be named '<init>'.", "Error")>>
        ELSE <<>>
    ELSE IF token.content = S_init
    THEN <<to_diagnostic(token,
              "'<init>' is reserved for nonstatic constructors.", "Error")>>
    ELSE IF token.content = S_clinit
    THEN <<to_diagnostic(token,
              "'<clinit>' is reserved for static constructors.", "Error")>>
    ELSE <<>>

\* validate_method_declaration_line, stage Modifiers, after the space check.
ModifiersStep(st, token) ==
    CASE token.token_type = "Visibility" ->
            IF st.vsblty_decl.some
            THEN Push(st, ModifierDeclared(st.vsblty_decl.val, token, "Visibility"))
            ELSE [st EXCEPT !.vsblty_decl = Some(token)]
      [] token.token_type = "Modifier" ->
            IF token.content = S_constructor THEN
                IF st.const_decl.some
                THEN Push(st, ModifierDeclared(st.const_decl.val, token, "Constuctor"))
                ELSE [st EXCEPT !.const_decl = Some(token)]
            ELSE IF token.content = S_final THEN
                IF st.final_decl.some
                THEN Push(st, ModifierDeclared(st.final_decl.val, token, "Final"))
                ELSE [st EXCEPT !.final_decl = Some(token)]
            ELSE IF token.content = S_static THEN
                IF st.static_decl.some
                THEN Push(st, ModifierDeclared(st.static_decl.val, token, "Static"))
                ELSE [st EXCEPT !.static_decl = Some(token)]
            ELSE st
      [] token.token_type = "MethodName" ->
            [Push(st, NamingDiags(st, token)) EXCEPT !.stage = "Params"]
      [] token.token_type = "Space" -> st
      [] OTHER -> Push(st, <<to_diagnostic(token, "Method modifier expected.", "Error")>>)

\* One iteration of the loop of validate_method_declaration_line for a token
\* after the directive.
MethodLineStep(st, token) ==
    LET body ==
        CASE st.stage = "Modifiers" ->
                IF ~st.was_space /\ token.token_type # "Space"
                THEN Push(st, <<to_diagnostic(token, "Space expected.", "Error")>>)
                ELSE ModifiersStep(st, token)
          [] st.stage = "Params" ->
                IF token.token_type \in {"BuiltinType", "Class"} THEN st
                ELSE IF token.content = S_rparen THEN [st EXCEPT !.stage = "ReturnType"]
                ELSE Push(st, <<to_diagnostic(token, "')' expected.", "Error")>>)
          [] OTHER ->
                IF st.has_return_type
                THEN IF token.token_type # "Space"
                     THEN Push(st, <<to_diagnostic(token, "New line expected.", "Error")>>)
                     ELSE st
                ELSE CASE token.token_type = "BuiltinType" ->
                            [st EXCEPT !.has_return_type = TRUE,
                                       !.return_type =
                                            IF token.content = S_V THEN ReturnTypeVoid
                                            ELSE ReturnType("BuiltinType", token.content)]
                       [] token.token_type = "Class" ->
                            [st EXCEPT !.has_return_type = TRUE,
                                       !.return_type = ReturnType("Class", token.content)]
                       [] OTHER ->
                            Push(st, <<to_diagnostic(token,
                                        "Return type expected.\n'V' for void.", "Error")>>)
    IN  [body EXCEPT !.was_space = (token.token_type = "Space")]

RECURSIVE MethodLineLoop(_, _, _)
MethodLineLoop(line, idx, st) ==
    IF idx > Len(line) THEN st
    ELSE MethodLineLoop(line, idx + 1,
                        IF idx = 1 THEN st ELSE MethodLineStep(st, line[idx]))

\* Mutant of ConstructorSlots: a constructor line takes its slot whether or
\* not the slot is filled, and no duplicate is reported.
ConstructorSlots_unchecked(st, line, validator) ==
    IF ~st.const_decl.some
    THEN [diags |-> st.diags, return_type |-> st.return_type, state |-> validator]
    ELSE IF st.static_decl.some
    THEN [diags |-> st.diags, return_type |-> st.return_type,
          state |-> [validator EXCEPT !.constructor_static =
                        Some(MethodDeclaration(TRUE, TRUE, line, ReturnTypeVoid))]]
    ELSE [diags |-> st.diags, return_type |-> st.return_type,
          state |-> [validator EXCEPT !.constructor_virtual =
                        Some(MethodDeclaration(TRUE, TRUE, line, ReturnTypeVoid))]]

\* Mutant of ConstructorSlots: a later constructor declaration is reported
\* and then takes the slot of the earlier one.
ConstructorSlots_last_kept(st, line, validator) ==
    IF ~st.const_decl.some
    THEN [diags |-> st.diags, return_type |-> st.return_type, state |-> validator]
    ELSE IF st.static_decl.some THEN
        [diags |-> st.diags \o
              (IF validator.constructor_static.some
               THEN <<tokens_to_diagnostic(validator.constructor_static.val.tokens,
                        "Static constuctor defined here.", "Hint"),
                      tokens_to_diagnostic(line, "Static constuctor already defined.", "Error")>>
               ELSE <<>>),
         return_type |-> st.return_type,
         state |-> [validator EXCEPT !.constructor_static =
                        Some(MethodDeclaration(TRUE, TRUE, line, ReturnTypeVoid))]]
    ELSE
        [diags |-> st.diags \o
              (IF validator.constructor_virtual.some
               THEN <<tokens_to_diagnostic(validator.constructor_virtual.val.tokens,
                        "Constuctor defined here.", "Hint"),
                      tokens_to_diagnostic(line, "Constuctor already defined.", "Error")>>
               ELSE <<>>),
         return_type |-> st.return_type,
         state |-> [validator EXCEPT !.constructor_virtual =
                        Some(MethodDeclaration(TRUE, TRUE, line, ReturnTypeVoid))]]

\* validate_method_declaration_line after its loop: the constructor slots.
\* st holds the locals the loop left.
ConstructorSlots(st, line, validator) ==
    IF ~st.const_decl.some
    THEN [diags |-> st.diags, return_type |-> st.return_type, state |-> validator]
    ELSE IF st.static_decl.some THEN
        IF validator.constructor_static.some
        THEN [diags |-> st.diags \o
                  <<tokens_to_diagnostic(validator.constructor_static.val.tokens,
                        "Static constuctor defined here.", "Hint"),
                    tokens_to_diagnostic(line, "Static constuctor already defined.", "Error")>>,
              return_type |-> st.return_type, state |-> validator]
        ELSE [diags |-> st.diags, return_type |-> st.return_type,
              state |-> [validator EXCEPT !.constructor_static =
                            Some(MethodDeclaration(TRUE, TRUE, line, ReturnTypeVoid))]]
    ELSE IF validator.constructor_virtual.some
        THEN [diags |-> st.diags \o
                  <<tokens_to_diagnostic(validator.constructor_virtual.val.tokens,
                        "Constuctor defined here.", "Hint"),
                    tokens_to_diagnostic(line, "Constuctor already defined.", "Error")>>,
              return_type |-> st.return_type, state |-> validator]
        ELSE [diags |-> st.diags, return_type |-> st.return_type,
              state |-> [validator EXCEPT !.constructor_virtual =
                            Some(MethodDeclaration(TRUE, TRUE, line, ReturnTypeVoid))]]

\* validate_method_declaration_line: the diagnostics, the return type and the
\* validator after the call (its constructor slots may be filled).
validate_method_declaration_line(line, validator) ==
    ConstructorSlots(
        MethodLineLoop(line, 1,
            [diags |-> <<>>, return_type |-> ReturnTypeNone,
             vsblty_decl |-> None, static_decl |-> None, final_decl |-> None,
             const_decl |-> None, stage |-> "Modifiers",
             has_return_type |-> FALSE, was_space |-> FALSE]),
        line, validator)

NestedMethod      == "'.method' directive cannot be inside a method block."
UnmatchedEnd      == "'.end method' directive must be at the end of a method block."

\* Mutant of StartMethod: a `.method` line inside an open block is accepted
\* like any other.
StartMethod_allow_nested(method_decl, line) ==
    [state |-> [method_decl.state EXCEPT !.method_decl =
                    Some(MethodDeclaration(TRUE, FALSE, line, method_decl.return_type))],
     diags |-> method_decl.diags]

\* Mutant of StartMethod: a `.method` line inside an open block gets the
\* nesting pair and the diagnostics of its own declaration.
StartMethod_nested_appended(method_decl, line) ==
    [state |-> [method_decl.state EXCEPT !.method_decl =
                    Some(MethodDeclaration(TRUE, FALSE, line, method_decl.return_type))],
     diags |-> IF /\ method_decl.state.method_decl.some
                  /\ method_decl.state.method_decl.val.is_start
               THEN <<tokens_to_diagnostic(method_decl.state.method_decl.val.tokens,
                         "Method block starts here.", "Hint"),
                      tokens_to_diagnostic(line, NestedMethod, "Error")>> \o method_decl.diags
               ELSE method_decl.diags]

\* validate_method_declaration for a `.method` line, after
\* validate_method_declaration_line returned method_decl.
StartMethod(method_decl, line) ==
    [state |-> [method_decl.state EXCEPT !.method_decl =
                    Some(MethodDeclaration(TRUE, FALSE, line, method_decl.return_type))],
     diags |-> IF /\ method_decl.state.method_decl.some
                  /\ method_decl.state.method_decl.val.is_start
               THEN <<tokens_to_diagnostic(method_decl.state.method_decl.val.tokens,
                         "Method block starts here.", "Hint"),
                      tokens_to_diagnostic(line, NestedMethod, "Error")>>
               ELSE method_decl.diags]

\* Mutant of EndMethod: an `.end method` line reports a missing return but
\* leaves the tracked block open.
EndMethod_stays_open(line, validator) ==
    IF validator.method_decl.some /\ validator.method_decl.val.is_start
    THEN [state |-> validator,
          diags |-> IF ~validator.method_decl.val.found_return
                    THEN <<tokens_to_diagnostic(validator.method_decl.val.tokens,
                              "No return instruction found in method block.", "Error")>>
                    ELSE <<>>]
    ELSE [state |-> validator, diags |-> <<tokens_to_diagnostic(line, UnmatchedEnd, "Error")>>]

\* validate_method_declaration for an `.end method` line.
EndMethod(line, validator) ==
    IF validator.method_decl.some THEN
        IF ~validator.method_decl.val.is_start
        THEN [state |-> validator,
              diags |-> <<tokens_to_diagnostic(validator.method_decl.val.tokens,
                             "Method block ends here.", "Hint"),
                          tokens_to_diagnostic(line, UnmatchedEnd, "Error")>>]
        ELSE [state |-> [validator EXCEPT !.method_decl =
                            Some(MethodDeclaration(FALSE, FALSE, line, ReturnTypeNone))],
              diags |-> IF ~validator.method_decl.val.found_return
                        THEN <<tokens_to_diagnostic(validator.method_decl.val.tokens,
                                  "No return instruction found in method block.", "Error")>>
                        ELSE <<>>]
    ELSE [state |-> validator, diags |-> <<tokens_to_diagnostic(line, UnmatchedEnd, "Error")>>]

\* validate_method_declaration: the validator after the call and the diagnostics.
validate_method_declaration(line, validator) ==
    IF Len(line) = 0 THEN [state |-> validator, diags |-> <<PanicDiagnostic>>]
    ELSE IF line[1].content = S_method
    THEN StartMethod(validate_method_declaration_line(line, validator), line)
    ELSE EndMethod(line, validator)

\* MethodValidator::validate_line.  line[0] panics on an empty line.
MethodValidateLine(validator, line) ==
    IF Len(line) = 0 THEN [state |-> validator, diags |-> <<PanicDiagnostic>>]
    ELSE IF line[1].token_type = "Method" THEN validate_method_declaration(line, validator)
    ELSE [state |-> validator, diags |-> <<>>]

\* MethodValidator::validate_end
MethodValidateEnd(validator) == <<>>

-----------------------------------------------------------------------------
(* validation/directives/mod.rs: DirectivesValidator *)

DirectivesValidatorDefault ==
    [header_validator |-> HeaderValidatorDefault,
     method_validator |-> MethodValidatorDefault]

\* diags.append(header ..); diags.append(method ..): the outcomes h and m of
\* the two validators put together.
Both(h, m) ==
    [state |-> [header_validator |-> h.state, method_validator |-> m.state],
     diags |-> h.diags \o m.diags]

DirectivesValidateToken(dv, token) ==
    Both([state |-> HeaderValidateToken(dv.header_validator, token), diags |-> <<>>],
         MethodValidateToken(dv.method_validator, token))

DirectivesValidateLine(dv, line) ==
    Both(HeaderValidateLine(dv.header_validator, line),
         MethodValidateLine(dv.method_validator, line))

DirectivesValidateEnd(dv) ==
    HeaderValidateEnd(dv.header_validator) \o MethodValidateEnd(dv.method_validator)

-----------------------------------------------------------------------------
(* validation/mod.rs: validate, one loop iteration per step *)

\* Mutant of NewValidator: the validator of the previous call is kept.
NewValidator_kept(previous) == previous

\* let mut directives_validator = DirectivesValidator::default();
\* A call builds its validator from nothing: whatever an earlier call left
\* behind (previous) is not consulted.
NewValidator(previous) == DirectivesValidatorDefault

\* Mutant of CallValidateLine: the line callback is invoked for empty lines too.
CallValidateLine_unguarded(dv, line) == DirectivesValidateLine(dv, line)

\* if !line.is_empty() { diags.append(&mut directives_validator.validate_line(&line)); }
CallValidateLine(dv, line) ==
    IF line # <<>> THEN DirectivesValidateLine(dv, line)
    ELSE [state |-> dv, diags |-> <<>>]

\* What the last step of the run did (ghost).
NoStep ==
    [kind |-> "none", line_called |-> FALSE, line |-> <<>>, line_diags |-> <<>>,
     token_diags |-> <<>>, before |-> DirectivesValidatorDefault]

LineEvent(line)   == [kind |-> "line", tokens |-> line]
TokenEvent(token) == [kind |-> "token", tokens |-> <<token>>]

ValIdle ==
    /\ v_content = <<>>
    /\ v_pc = "idle"
    /\ v_tokens = <<>>
    /\ v_idx = 0
    /\ v_current_line = <<>>
    /\ v_diags = <<>>
    /\ v_validator = DirectivesValidatorDefault
    /\ v_last = NoStep
    /\ v_log = <<>>
    /\ v_run = 0
    /\ v_history = <<>>

\* The documents of a single run: up to MaxLines lines, the last one with or
\* without its terminating newline.
DocLines ==
    { <<".", "c", "l", "a", "s", "s", " ", "L", "a", ";">>,
      <<" ", ".", "c", "l", "a", "s", "s", " ", "L", "a", ";", " ">>,
      <<".", "m", "e", "t", "h", "o", "d", " ", "a", "(", ")", "V">>,
      <<".", "e", "n", "d", " ", "m", "e", "t", "h", "o", "d">>,
      <<"r", "e", "t", "u", "r", "n", "-", "v", "o", "i", "d">>,
      <<"?">>,
      <<>> }

RECURSIVE JoinLines(_)
JoinLines(ls) ==
    IF Len(ls) = 0 THEN <<>>
    ELSE IF Len(ls) = 1 THEN ls[1]
    ELSE (ls[1] \o <<NL>>) \o JoinLines(Tail(ls))

Docs ==
    {JoinLines(ls) \o term : ls \in SeqsUpTo(DocLines, MaxLines), term \in {<<>>, <<NL>>}}

\* The documents of a session of several calls.
RunDocs ==
    { <<".", "c", "l", "a", "s", "s", " ", "L", "a", ";", NL>>,
      <<".", "m", "e", "t", "h", "o", "d", " ", "a", "(", ")", "V", NL,
        "r", "e", "t", "u", "r", "n", "-", "v", "o", "i", "d", NL>>,
      <<".", "e", "n", "d", " ", "m", "e", "t", "h", "o", "d", NL>>,
      <<"?">> }

ValInit ==
    /\ v_content \in Docs
    /\ v_pc = "called"
    /\ v_tokens = <<>>
    /\ v_idx = 0
    /\ v_current_line = <<>>
    /\ v_diags = <<>>
    /\ v_validator = DirectivesValidatorDefault
    /\ v_last = NoStep
    /\ v_log = <<>>
    /\ v_run = 1
    /\ v_history = <<>>

RunsInit ==
    /\ v_content \in RunDocs
    /\ v_pc = "called"
    /\ v_tokens = <<>>
    /\ v_idx = 0
    /\ v_current_line = <<>>
    /\ v_diags = <<>>
    /\ v_validator = DirectivesValidatorDefault
    /\ v_last = NoStep
    /\ v_log = <<>>
    /\ v_run = 1
    /\ v_history = <<>>

\* The locals of validate once lex_str has returned tokens.
StartWith(tokens) ==
    /\ v_tokens' = tokens
    /\ v_pc' = IF LexPanics(tokens) THEN "panicked" ELSE "loop"
    /\ v_idx' = 1
    /\ v_current_line' = <<>>
    /\ v_diags' = <<>>
    /\ v_validator' = NewValidator(v_validator)
    /\ v_last' = NoStep
    /\ v_log' = <<>>

\* let tokens = lex_str(&content); let mut diags = Vec::new();
\* let mut directives_validator = ..; let mut current_line = Vec::new();
ValidateStart ==
    /\ v_pc = "called"
    /\ StartWith(lex_str(v_content))
    /\ UNCHANGED <<v_content, v_run, v_history, notVal>>

\* Mutant of EndNewLine: the NewLine token that ends an empty line is not
\* passed to the token callback.
EndNewLine_skip_empty(token, line, l, t) ==
    /\ v_pc' = IF line # <<>> /\ Panics(t.diags) THEN "panicked" ELSE "loop"
    /\ v_idx' = v_idx + 1
    /\ v_current_line' = <<>>
    /\ v_diags' = IF line # <<>> THEN (v_diags \o l.diags) \o t.diags ELSE v_diags
    /\ v_validator' = IF line # <<>> THEN t.state ELSE l.state
    /\ v_last' = [kind |-> "newline", line_called |-> line # <<>>,
                  line |-> line, line_diags |-> l.diags,
                  token_diags |-> IF line # <<>> THEN t.diags ELSE <<>>,
                  before |-> v_validator]
    /\ v_log' = v_log \o (IF line # <<>> THEN <<LineEvent(line), TokenEvent(token)>> ELSE <<>>)

\* The end of a loop iteration for a NewLine token: the line callback (if it
\* was invoked) returned l, the token callback returned t.
EndNewLine(token, line, l, t) ==
    /\ v_pc' = IF Panics(t.diags) THEN "panicked" ELSE "loop"
    /\ v_idx' = v_idx + 1
    /\ v_current_line' = <<>>
    /\ v_diags' = (v_diags \o l.diags) \o t.diags
    /\ v_validator' = t.state
    /\ v_last' = [kind |-> "newline", line_called |-> line # <<>>,
                  line |-> line, line_diags |-> l.diags,
                  token_diags |-> t.diags, before |-> v_validator]
    /\ v_log' = (v_log \o (IF line # <<>> THEN <<LineEvent(line)>> ELSE <<>>))
                       \o <<TokenEvent(token)>>

\* diags.append(&mut directives_validator.validate_token(&token)) after the
\* line callback returned l (a panic in the line callback ends the run).
TokenAfterLine(token, line, l) ==
    IF Panics(l.diags)
    THEN /\ v_pc' = "panicked"
         /\ UNCHANGED <<v_idx, v_current_line, v_diags, v_validator, v_last, v_log>>
    ELSE EndNewLine(token, line, l, DirectivesValidateToken(l.state, token))

\* Mutant of LineThenToken: the NewLine token is passed to the token callback
\* before the line it ends is passed to the line callback.
LineThenToken_token_first(token, line) ==
    /\ v_pc' = IF Panics(DirectivesValidateToken(v_validator, token).diags)
               THEN "panicked" ELSE "loop"
    /\ v_idx' = v_idx + 1
    /\ v_current_line' = <<>>
    /\ v_diags' = (v_diags \o DirectivesValidateToken(v_validator, token).diags)
                      \o CallValidateLine(DirectivesValidateToken(v_validator, token).state, line).diags
    /\ v_validator' = CallValidateLine(DirectivesValidateToken(v_validator, token).state, line).state
    /\ v_last' = [kind |-> "newline", line_called |-> line # <<>>,
                  line |-> line,
                  line_diags |-> CallValidateLine(DirectivesValidateToken(v_validator, token).state, line).diags,
                  token_diags |-> DirectivesValidateToken(v_validator, token).diags,
                  before |-> v_validator]
    /\ v_log' = (v_log \o <<TokenEvent(token)>>)
                       \o (IF line # <<>> THEN <<LineEvent(line)>> ELSE <<>>)

\* let line = trim_space_tokens(current_line); if !line.is_empty() { .. }
LineThenToken(token, line) ==
    TokenAfterLine(token, line, CallValidateLine(v_validator, line))

\* The loop body for a NewLine token.
LoopNewLine ==
    /\ v_pc = "loop"
    /\ v_idx <= Len(v_tokens)
    /\ v_tokens[v_idx].token_type = "NewLine"
    /\ LineThenToken(v_tokens[v_idx], trim_space_tokens(v_current_line))
    /\ UNCHANGED <<v_content, v_tokens, v_run, v_history, notVal>>

\* The end of a loop iteration for another token: the token callback returned t.
EndOther(token, t) ==
    /\ v_pc' = IF Panics(t.diags) THEN "panicked" ELSE "loop"
    /\ v_idx' = v_idx + 1
    /\ v_current_line' = Append(v_current_line, token)
    /\ v_diags' = v_diags \o t.diags
    /\ v_validator' = t.state
    /\ v_last' = [kind |-> "token", line_called |-> FALSE,
                  line |-> <<>>, line_diags |-> <<>>,
                  token_diags |-> t.diags, before |-> v_validator]
    /\ v_log' = Append(v_log, TokenEvent(token))

\* The loop body for any other token.
LoopOther ==
    /\ v_pc = "loop"
    /\ v_idx <= Len(v_tokens)
    /\ v_tokens[v_idx].token_type # "NewLine"
    /\ EndOther(v_tokens[v_idx], DirectivesValidateToken(v_validator, v_tokens[v_idx]))
    /\ UNCHANGED <<v_content, v_tokens, v_run, v_history, notVal>>

\* Mutant of ReturnWith: the diagnostics of validate_end are put in front of
\* the list.
ReturnWith_end_first(e) ==
    /\ v_pc' = IF Panics(e) THEN "panicked" ELSE "returned"
    /\ v_diags' = e \o v_diags
    /\ v_last' = [kind |-> "end", line_called |-> FALSE,
                  line |-> <<>>, line_diags |-> <<>>,
                  token_diags |-> e, before |-> v_validator]
    /\ v_history' = Append(v_history, [content |-> v_content, diags |-> e \o v_diags])

\* Ok(diags) once validate_end returned e.
ReturnWith(e) ==
    /\ v_pc' = IF Panics(e) THEN "panicked" ELSE "returned"
    /\ v_diags' = v_diags \o e
    /\ v_last' = [kind |-> "end", line_called |-> FALSE,
                  line |-> <<>>, line_diags |-> <<>>,
                  token_diags |-> e, before |-> v_validator]
    /\ v_history' = Append(v_history, [content |-> v_content, diags |-> v_diags \o e])

\* diags.append(&mut directives_validator.validate_end()); Ok(diags)
ValidateReturn ==
    /\ v_pc = "loop"
    /\ v_idx > Len(v_tokens)
    /\ ReturnWith(DirectivesValidateEnd(v_validator))
    /\ UNCHANGED <<v_content, v_tokens, v_idx, v_current_line, v_validator, v_log, v_run, notVal>>

\* The server calls validate again (main.rs:97, Backend::validate), with any document.
NextCall ==
    /\ v_pc = "returned"
    /\ v_run < MaxRuns
    /\ v_content' \in RunDocs
    /\ v_pc' = "called"
    /\ v_run' = v_run + 1
    /\ UNCHANGED <<v_tokens, v_idx, v_current_line, v_diags, v_validator, v_last, v_log,
                   v_history, notVal>>

Next == ValidateStart \/ LoopNewLine \/ LoopOther \/ ValidateReturn

RunsNext == Next \/ NextCall

-----------------------------------------------------------------------------
(* Specifications *)

PosSpecInit == PosInit /\ LexIdle /\ ValIdle /\ TrimIdle /\ DocIdle /\ HdrIdle /\ CacheIdle
SpecPos == PosSpecInit /\ [][PosNext]_vars

LexSpecInit == LexInit /\ PosIdle /\ ValIdle /\ TrimIdle /\ DocIdle /\ HdrIdle /\ CacheIdle
SpecLex == LexSpecInit /\ [][LexNext]_vars

Init == ValInit /\ PosIdle /\ LexIdle /\ TrimIdle /\ DocIdle /\ HdrIdle /\ CacheIdle
Spec == Init /\ [][Next]_vars

RunsSpecInit == RunsInit /\ PosIdle /\ LexIdle /\ TrimIdle /\ DocIdle /\ HdrIdle /\ CacheIdle
SpecRuns == RunsSpecInit /\ [][RunsNext]_vars

-----------------------------------------------------------------------------
(* Properties of validate *)

\* The token runs between NewLine tokens (and the stream boundaries), from
\* token k on; current is the run collected so far.
RECURSIVE SegmentsFrom(_, _, _)
SegmentsFrom(tokens, k, current) ==
    IF k > Len(tokens) THEN <<current>>
    ELSE IF tokens[k].token_type = "NewLine"
         THEN <<current>> \o SegmentsFrom(tokens, k + 1, <<>>)
         ELSE SegmentsFrom(tokens, k + 1, Append(current, tokens[k]))

NonSpace(seg) == {k \in DOMAIN seg : seg[k].token_type # "Space"}

\* A run without its leading and trailing Space tokens.
Trimmed(seg) ==
    IF NonSpace(seg) = {} THEN <<>>
    ELSE SubSeq(seg, CHOOSE a \in NonSpace(seg) : \A k \in NonSpace(seg) : a <= k,
                     CHOOSE b \in NonSpace(seg) : \A k \in NonSpace(seg) : b >= k)

IsLine(seg) == seg # <<>>

\* The logical lines of a token stream: the non-empty trimmed runs, the last
\* one included whether or not a NewLine token ends it.
LogicalLines(tokens) ==
    LET segs == SegmentsFrom(tokens, 1, <<>>)
    IN  SelectSeq([k \in DOMAIN segs |-> Trimmed(segs[k])], IsLine)

\* The last logical line of the stream has no NewLine token after it.
LastLineUnterminated(tokens) ==
    LET segs == SegmentsFrom(tokens, 1, <<>>)
    IN  Trimmed(segs[Len(segs)]) # <<>>

\* Where a diagnostic about a whole line is anchored.
LineRange(line) == [start |-> line[1].range.start, end |-> line[Len(line)].range.end]

IsClassLine(line)  == line[1].token_type = "Directive" /\ line[1].content = S_class
IsMethodLine(line) == line[1].token_type = "Method"

ClassLines  == SelectSeq(LogicalLines(v_tokens), IsClassLine)
MethodLines == SelectSeq(LogicalLines(v_tokens), IsMethodLine)

\* The indices of the returned diagnostics with a severity, a message and a range.
DiagsAt(severity, message, range) ==
    {k \in DOMAIN v_diags : /\ v_diags[k].severity = severity
                            /\ v_diags[k].message = message
                            /\ v_diags[k].range = range}

HintsAt(range) ==
    {k \in DOMAIN v_diags : v_diags[k].severity = "Hint" /\ v_diags[k].range = range}

Has(diags, severity, message, range) ==
    \E k \in DOMAIN diags : /\ diags[k].severity = severity
                            /\ diags[k].message = message
                            /\ diags[k].range = range

\* C6: validating the same text twice, whatever was validated in between,
\* yields the same diagnostic list.
C6_SameTextSameDiagnostics ==
    \A i, j \in DOMAIN v_history :
        v_history[i].content = v_history[j].content => v_history[i].diags = v_history[j].diags

\* A text validated first and third, another text in between, with diagnostics.
C6_Witness ==
    /\ Len(v_history) = 3
    /\ v_history[1].content = v_history[3].content
    /\ v_history[2].content # v_history[1].content
    /\ v_history[1].diags # <<>>
    /\ v_history[2].diags # <<>>

IsTokenEvent(e) == e.kind = "token"
IsLineEvent(e)  == e.kind = "line"

\* The tokens passed to the token callback so far, in order.
TokensDispatched ==
    LET es == SelectSeq(v_log, IsTokenEvent)
    IN  [k \in DOMAIN es |-> es[k].tokens[1]]

\* Every token list a validator keeps for a later diagnostic is non-empty.
StoredNonEmpty(dv) ==
    /\ \A f \in {"top_line", "super_declaration", "class_declaration", "source_declaration"} :
          dv.header_validator[f].some => Len(dv.header_validator[f].val) > 0
    /\ \A f \in {"method_decl", "constructor_static", "constructor_virtual"} :
          dv.method_validator[f].some => Len(dv.method_validator[f].val.tokens) > 0

\* C7: validate never aborts: no callback panics, the line callback only gets
\* non-empty lines, the token lists kept for later diagnostics are non-empty,
\* and every token is processed whatever diagnostics earlier lines produced,
\* so the call returns Ok with its diagnostic list.
C7_NeverAborts ==
    /\ v_pc # "panicked"
    /\ ~Panics(v_diags)
    /\ v_last.line_called => Len(v_last.line) > 0
    /\ StoredNonEmpty(v_validator)
    /\ v_pc \in {"loop", "returned"} => TokensDispatched = SubSeq(v_tokens, 1, v_idx - 1)
    /\ v_pc = "returned" => /\ v_idx = Len(v_tokens) + 1
                            /\ v_history[Len(v_history)].diags = v_diags

\* A run that returned after an Error on one line and a diagnostic on a later line.
C7_Witness ==
    /\ v_pc = "returned"
    /\ \E j, k \in DOMAIN v_diags :
          /\ j < k
          /\ v_diags[j].severity = "Error"
          /\ v_diags[k].range.start.line > v_diags[j].range.end.line

\* C8: a document with two `.class` lines gets exactly one Hint anchored at
\* the first and exactly one Error 'Class already declared.' anchored at the
\* second.
C8_DuplicateClassPair ==
    (v_pc = "returned" /\ Len(ClassLines) = 2) =>
        /\ Cardinality(HintsAt(LineRange(ClassLines[1]))) = 1
        /\ Cardinality(DiagsAt("Error", "Class already declared.", LineRange(ClassLines[2]))) = 1

\* The same when a NewLine token follows the last logical line.
C8_DuplicateClassPairTerminated ==
    (v_pc = "returned" /\ Len(ClassLines) = 2 /\ ~LastLineUnterminated(v_tokens)) =>
        /\ Cardinality(HintsAt(LineRange(ClassLines[1]))) = 1
        /\ Cardinality(DiagsAt("Error", "Class already declared.", LineRange(ClassLines[2]))) = 1

\* A method block is open in the validator.
IsOpen(dv) ==
    /\ dv.method_validator.method_decl.some
    /\ dv.method_validator.method_decl.val.is_start

IsMethodEvent(e) == e.kind = "line" /\ IsMethodLine(e.tokens)

\* The last line with a Method directive that reached the line callback was `.method`.
OpenByHistory ==
    LET es == SelectSeq(v_log, IsMethodEvent)
    IN  Len(es) > 0 /\ es[Len(es)].tokens[1].content = S_method

\* C9: the validator tracks one method block, open exactly when the last
\* method directive that arrived was `.method`; a `.method` line arriving
\* while it is open gets an Error, and so does an `.end method` line arriving
\* while none is open (none tracked, or the tracked one closed).
C9_OneOpenBlock ==
    /\ v_pc \in {"loop", "returned"} => (IsOpen(v_validator) <=> OpenByHistory)
    /\ (v_last.line_called /\ IsMethodLine(v_last.line)) =>
          IF v_last.line[1].content = S_method
          THEN IsOpen(v_last.before) =>
                  Has(v_last.line_diags, "Error", NestedMethod, LineRange(v_last.line))
          ELSE ~IsOpen(v_last.before) =>
                  Has(v_last.line_diags, "Error", UnmatchedEnd, LineRange(v_last.line))

\* An `.end method` line arrived after the tracked block was closed.
C9_Witness ==
    /\ v_last.line_called
    /\ IsMethodLine(v_last.line)
    /\ v_last.line[1].content # S_method
    /\ v_last.before.method_validator.method_decl.some
    /\ ~IsOpen(v_last.before)

\* C10: of two `.method` lines with no `.end method` line between them, the
\* second gets the Error "'.method' directive cannot be inside a method
\* block." anchored at it and a Hint anchored at the first.
C10_NestedMethodPair ==
    v_pc = "returned" =>
        \A k \in 1..(Len(MethodLines) - 1) :
            (MethodLines[k][1].content = S_method /\ MethodLines[k + 1][1].content = S_method) =>
                /\ DiagsAt("Error", NestedMethod, LineRange(MethodLines[k + 1])) # {}
                /\ DiagsAt("Hint", "Method block starts here.", LineRange(MethodLines[k])) # {}

\* The same when a NewLine token follows the last logical line.
C10_NestedMethodPairTerminated ==
    (v_pc = "returned" /\ ~LastLineUnterminated(v_tokens)) =>
        \A k \in 1..(Len(MethodLines) - 1) :
            (MethodLines[k][1].content = S_method /\ MethodLines[k + 1][1].content = S_method) =>
                /\ DiagsAt("Error", NestedMethod, LineRange(MethodLines[k + 1])) # {}
                /\ DiagsAt("Hint", "Method block starts here.", LineRange(MethodLines[k])) # {}

IsSuperLine(line) == line[1].token_type = "Directive" /\ line[1].content = S_super

\* The document has a non-empty line, and none is a `.class` or `.super` line.
NoClassNoSuper ==
    /\ LogicalLines(v_tokens) # <<>>
    /\ \A k \in DOMAIN LogicalLines(v_tokens) :
          ~IsClassLine(LogicalLines(v_tokens)[k]) /\ ~IsSuperLine(LogicalLines(v_tokens)[k])

MissingBoth(range) ==
    <<Diagnostic(range, "Missing class directive.", "Error"),
      Diagnostic(range, "Missing super directive.\nExtend 'Ljava/lang/Object;' by default",
                 "Error")>>

\* C11: a document without `.class` and `.super` lines gets, at the end of
\* the stream, exactly the two Errors "missing class" and "missing super",
\* in this order, both anchored at its first non-empty line.
C11_MissingBothAtEnd ==
    (v_pc = "returned" /\ NoClassNoSuper) =>
        /\ v_last.kind = "end"
        /\ v_last.token_diags = MissingBoth(LineRange(LogicalLines(v_tokens)[1]))

\* The same when a NewLine token follows the last logical line.
C11_MissingBothAtEndTerminated ==
    (v_pc = "returned" /\ NoClassNoSuper /\ ~LastLineUnterminated(v_tokens)) =>
        /\ v_last.kind = "end"
        /\ v_last.token_diags = MissingBoth(LineRange(LogicalLines(v_tokens)[1]))

-----------------------------------------------------------------------------
(* validate on documents of method declarations and return instructions *)

\* The locals and ghosts of validate at the entry of its first call.
ValEntry ==
    /\ v_pc = "called"
    /\ v_tokens = <<>>
    /\ v_idx = 0
    /\ v_current_line = <<>>
    /\ v_diags = <<>>
    /\ v_validator = DirectivesValidatorDefault
    /\ v_last = NoStep
    /\ v_log = <<>>
    /\ v_run = 1
    /\ v_history = <<>>

\* The documents of up to MaxLines of the given lines, the last one with or
\* without its terminating newline.
DocsOf(Lines) ==
    {JoinLines(ls) \o term : ls \in SeqsUpTo(Lines, MaxLines), term \in {<<>>, <<NL>>}}

ReturnDocLines ==
    { <<".", "m", "e", "t", "h", "o", "d", " ", "a", "(", ")", "V">>,
      <<".", "m", "e", "t", "h", "o", "d", " ", "a", "(", ")", "L", "a", ";">>,
      <<".", "m", "e", "t", "h", "o", "d", " ", "a", "(", ")", "V", " ", "#">>,
      <<".", "e", "n", "d", " ", "m", "e", "t", "h", "o", "d">>,
      <<"r", "e", "t", "u", "r", "n", "-", "v", "o", "i", "d">>,
      <<"r", "e", "t", "u", "r", "n", "-", "o", "b", "j", "e", "c", "t">> }

ReturnDocs == DocsOf(ReturnDocLines)

ReturnInit == v_content \in ReturnDocs /\ ValEntry

ReturnSpecInit == ReturnInit /\ PosIdle /\ LexIdle /\ TrimIdle /\ DocIdle /\ HdrIdle /\ CacheIdle
SpecReturn == ReturnSpecInit /\ [][Next]_vars

\* The token the last loop iteration handed to the token callback.
LastToken == v_tokens[v_idx - 1]

TokenStep == v_last.kind \in {"token", "newline"}

\* The method declaration tracked before the last step.
Tracked == v_last.before.method_validator.method_decl.val

\* The declared return-type token of a `.method` line: the first BuiltinType
\* or Class token after the closing parenthesis.
AfterParen(line) ==
    {k \in DOMAIN line : /\ line[k].token_type \in {"BuiltinType", "Class"}
                         /\ \E j \in 1..(k - 1) : line[j].content = S_rparen}

DeclaredReturnToken(line) ==
    line[CHOOSE k \in AfterParen(line) : \A j \in AfterParen(line) : k <= j]

\* A Return token reached the token callback while a method declared with
\* return type kind is open.
ReturnIn(kind) ==
    /\ TokenStep
    /\ LastToken.token_type = "Return"
    /\ IsOpen(v_last.before)
    /\ Tracked.return_type.kind = kind

\* One Hint at the declared return type and one Error at the return token.
MismatchPair(diags) ==
    /\ Len(diags) = 2
    /\ \E h, e \in 1..2 :
          /\ h # e
          /\ diags[h].severity = "Hint"
          /\ diags[h].range = DeclaredReturnToken(Tracked.tokens).range
          /\ diags[e].severity = "Error"
          /\ diags[e].range = LastToken.range

Accepts(kind) == IF kind = "Void" THEN S_return_void ELSE S_return_object

\* C12: in an open method declared `V`, `return-void` gets no diagnostic and
\* any other return instruction gets exactly one Hint at the declared
\* return-type token and one Error at the return token; likewise
\* `return-object` in an open method declared with a Class return type.
C12_ReturnConsistency ==
    \A kind \in {"Void", "Class"} :
        ReturnIn(kind) =>
            IF LastToken.content = Accepts(kind) THEN v_last.token_diags = <<>>
            ELSE MismatchPair(v_last.token_diags)

\* The same for declarations whose line ends with the return-type token.
C12_ReturnConsistencyLastToken ==
    \A kind \in {"Void", "Class"} :
        (ReturnIn(kind) /\ DeclaredReturnToken(Tracked.tokens) = Tracked.tokens[Len(Tracked.tokens)]) =>
            IF LastToken.content = Accepts(kind) THEN v_last.token_diags = <<>>
            ELSE MismatchPair(v_last.token_diags)
-----------------------------------------------------------------------------
(* validate on documents of constructor declarations *)

\* Words put together with one space between them.
RECURSIVE Spaced(_)
Spaced(ws) ==
    IF Len(ws) = 0 THEN <<>>
    ELSE IF Len(ws) = 1 THEN ws[1]
    ELSE (ws[1] \o <<" ">>) \o Spaced(Tail(ws))

W_public == <<"p", "u", "b", "l", "i", "c">>
VoidOf(name) == name \o <<")", "V">>

ConstructorDocLines ==
    { Spaced(<<S_method, W_public, S_constructor, VoidOf(<<"b", "a", "r", "(">>)>>),
      Spaced(<<S_method, W_public, S_static, S_constructor, VoidOf(S_clinit)>>),
      Spaced(<<S_method, S_constructor, VoidOf(S_init)>>),
      Spaced(<<S_method, VoidOf(S_init)>>),
      S_method \o VoidOf(S_clinit),
      S_end_method }

ConstructorDocs == DocsOf(ConstructorDocLines)

ConstructorInit == v_content \in ConstructorDocs /\ ValEntry

ConstructorSpecInit == ConstructorInit /\ PosIdle /\ LexIdle /\ TrimIdle /\ DocIdle /\ HdrIdle /\ CacheIdle
SpecConstructor == ConstructorSpecInit /\ [][Next]_vars

\* The last step passed a `.method` line to the line callback.
MethodLineStepped ==
    /\ v_last.line_called
    /\ IsMethodLine(v_last.line)
    /\ v_last.line[1].content = S_method

NameTokens(line) == {k \in DOMAIN line : k > 1 /\ line[k].token_type = "MethodName"}

\* The position of the method name of a `.method` line: its first MethodName token.
NameIdx(line) == CHOOSE k \in NameTokens(line) : \A j \in NameTokens(line) : k <= j

\* The line carries the modifier word before its method name.
HasModifier(line, word) ==
    \E k \in 2..(NameIdx(line) - 1) :
        /\ line[k].token_type = "Modifier"
        /\ line[k].content = word
        /\ line[k - 1].token_type = "Space"

NamingMessages ==
    { "Static constuctor must be named '<clinit>'.",
      "Non-static constuctor must be named '<init>'.",
      "'<init>' is reserved for nonstatic constructors.",
      "'<clinit>' is reserved for static constructors." }

\* A constructor-naming Error anchored at the method name of the line.
NamingError(diags, line) ==
    \E k \in DOMAIN diags :
        /\ diags[k].severity = "Error"
        /\ diags[k].message \in NamingMessages
        /\ diags[k].range = line[NameIdx(line)].range

\* The name of the line does not fit its modifiers.
NameMismatch(line) ==
    LET name == line[NameIdx(line)].content
    IN  \/ /\ HasModifier(line, S_constructor)
           /\ HasModifier(line, S_static)
           /\ name # S_clinit
        \/ /\ HasModifier(line, S_constructor)
           /\ ~HasModifier(line, S_static)
           /\ name # S_init
        \/ /\ ~HasModifier(line, S_constructor)
           /\ name \in {S_init, S_clinit}

-----------------------------------------------------------------------------
(* Properties of the line assembly of validate *)

\* The lines passed to the line callback so far, in order.
LinesDispatched ==
    LET es == SelectSeq(v_log, IsLineEvent)
    IN  [k \in DOMAIN es |-> es[k].tokens]

\* The logical lines that a NewLine token ends.
TerminatedLines(tokens) ==
    IF LastLineUnterminated(tokens)
    THEN SubSeq(LogicalLines(tokens), 1, Len(LogicalLines(tokens)) - 1)
    ELSE LogicalLines(tokens)

\* C14: every logical line of the token stream that is non-empty after
\* trimming is passed to the line callback exactly once, in order, a last
\* line without terminating NewLine token included.
C14_EveryLineOnce ==
    v_pc = "returned" => LinesDispatched = LogicalLines(v_tokens)

\* The same for the logical lines that a NewLine token ends.
C14_EveryTerminatedLineOnce ==
    v_pc = "returned" => LinesDispatched = TerminatedLines(v_tokens)
-----------------------------------------------------------------------------
(* validate on documents of header directives, comments and blank lines *)

HeaderDocLines ==
    { Spaced(<<S_class, <<"L", "a", ";">> >>),
      S_class,
      Spaced(<<S_super, <<"L", "a", ";">> >>),
      Spaced(<<S_source, <<"L", "a", ";">> >>),
      <<" ", "#">>,
      <<" ">> }

HeaderDocs == DocsOf(HeaderDocLines)

HeaderInit == v_content \in HeaderDocs /\ ValEntry

HeaderSpecInit == HeaderInit /\ PosIdle /\ LexIdle /\ TrimIdle /\ DocIdle /\ HdrIdle /\ CacheIdle
SpecHeader == HeaderSpecInit /\ [][Next]_vars

\* The line has a token of another type than the given ones.
HasTokenBeyond(line, types) == \E k \in DOMAIN line : line[k].token_type \notin types

\* No line made only of tokens of the given types reached the line callback,
\* and none is the top line of the header validator.
NeverALine(types) ==
    /\ \A k \in DOMAIN LinesDispatched : HasTokenBeyond(LinesDispatched[k], types)
    /\ v_validator.header_validator.top_line.some =>
          HasTokenBeyond(v_validator.header_validator.top_line.val, types)

\* C15: a line that consists only of Space and Comment tokens is never passed
\* to the line callback and never becomes the top line of the header validator.
C15_BlankLinesSkipped == NeverALine({"Space", "Comment"})

\* The same for the lines that consist only of Space tokens.
C15_SpaceLinesSkipped == NeverALine({"Space"})
-----------------------------------------------------------------------------
(* Properties of the token dispatch of validate *)

NewLineTokens(tokens) == {k \in DOMAIN tokens : tokens[k].token_type = "NewLine"}
SpaceTokens(tokens)   == {k \in DOMAIN tokens : tokens[k].token_type = "Space"}

\* C16: every token of the stream, the NewLine and Space tokens and the
\* tokens of lines skipped as empty included, is passed to the token callback
\* exactly once and in stream order: the tokens passed so far are the tokens
\* the loop has gone through, and all of them once the call returned.
C16_EveryTokenOnce ==
    /\ v_pc = "loop" => TokensDispatched = SubSeq(v_tokens, 1, v_idx - 1)
    /\ v_pc = "returned" => TokensDispatched = v_tokens

\* A call returned for a stream with Space tokens and more NewLine tokens
\* than lines passed to the line callback: some line was skipped as empty.
C16_Witness ==
    /\ v_pc = "returned"
    /\ SpaceTokens(v_tokens) # {}
    /\ Len(LinesDispatched) > 0
    /\ Cardinality(NewLineTokens(v_tokens)) > Len(LinesDispatched)
    /\ TokensDispatched = v_tokens
-----------------------------------------------------------------------------
(* trim_space_tokens called on its own *)

\* The token of a type at position k of a list: one character wide.
TrimToken(k, token_type) ==
    [range      |-> [start |-> Position(0, k - 1), end |-> Position(0, k)],
     content    |-> IF token_type = "Space" THEN <<" ">>
                    ELSE IF token_type = "Comment" THEN <<"#">> ELSE <<"?">>,
     token_type |-> token_type]

TrimTypes == {"Space", "Comment", "Error"}

\* The token lists of up to MaxTrimLen tokens.
TrimInputs ==
    UNION { {[k \in 1..n |-> TrimToken(k, ts[k])] : ts \in [1..n -> TrimTypes]} :
            n \in 0..MaxTrimLen }

TrimInit ==
    /\ tr_tokens \in TrimInputs
    /\ tr_output = <<>>
    /\ tr_pc = "called"

\* let line = trim_space_tokens(tokens);
CallTrim ==
    /\ tr_pc = "called"
    /\ tr_output' = trim_space_tokens(tr_tokens)
    /\ tr_pc' = "returned"
    /\ UNCHANGED <<tr_tokens, notTrim>>

TrimNext == CallTrim

TrimSpecInit == TrimInit /\ PosIdle /\ LexIdle /\ ValIdle /\ DocIdle /\ HdrIdle /\ CacheIdle
SpecTrim == TrimSpecInit /\ [][TrimNext]_vars

\* The positions of the tokens to keep: the non-Space tokens, and the Space
\* tokens with a non-Space token somewhere before and somewhere after.
KeptIdx(tokens) ==
    {k \in DOMAIN tokens :
        \/ tokens[k].token_type # "Space"
        \/ /\ \E i \in 1..(k - 1) : tokens[i].token_type # "Space"
           /\ \E j \in (k + 1)..Len(tokens) : tokens[j].token_type # "Space"}

\* The tokens at the positions S, in their order.
TokensAt(tokens, S) ==
    [i \in 1..Cardinality(S) |->
        tokens[CHOOSE k \in S : Cardinality({m \in S : m < k}) = i - 1]]

\* C17: trim_space_tokens returns the input tokens in their order, every
\* non-Space token once and a Space token exactly when it lies between two
\* non-Space tokens; the result neither begins nor ends with a Space token.
C17_TrimSpaces ==
    tr_pc = "returned" =>
        /\ tr_output = TokensAt(tr_tokens, KeptIdx(tr_tokens))
        /\ tr_output # <<>> =>
              /\ tr_output[1].token_type # "Space"
              /\ tr_output[Len(tr_output)].token_type # "Space"

\* A list with leading, interior and trailing Space tokens was trimmed.
C17_Witness ==
    /\ tr_pc = "returned"
    /\ Len(tr_tokens) = 5
    /\ tr_tokens[1].token_type = "Space"
    /\ tr_tokens[3].token_type = "Space"
    /\ tr_tokens[5].token_type = "Space"
    /\ Len(tr_output) = 3
-----------------------------------------------------------------------------
(* Properties of the singleton header directives *)

SingletonDirectives == {S_class, S_super, S_source}

IsDirectiveLine(line, d) == line[1].token_type = "Directive" /\ line[1].content = d

\* The slot of the header validator for a directive, and the name in its messages.
SlotOf(dv, d) ==
    IF d = S_class THEN dv.header_validator.class_declaration
    ELSE IF d = S_super THEN dv.header_validator.super_declaration
    ELSE dv.header_validator.source_declaration

NameOf(d) == IF d = S_class THEN "Class" ELSE IF d = S_super THEN "Super" ELSE "Source"

\* The positions, among the lines passed to the line callback, of the lines
\* of a directive.
DispatchedOf(d) == {k \in DOMAIN LinesDispatched : IsDirectiveLine(LinesDispatched[k], d)}

\* C18: for `.class`, `.super` and `.source`, the slot holds the first line
\* of the directive that was processed, whatever its shape, and is never
\* replaced; every later line of the directive yields exactly the Hint
\* anchored at that first line and the Error anchored at the new line, and
\* no shape diagnostics.
C18_SingletonDirectives ==
    \A d \in SingletonDirectives :
        /\ IF DispatchedOf(d) = {} THEN ~SlotOf(v_validator, d).some
           ELSE /\ SlotOf(v_validator, d).some
                /\ \E k \in DispatchedOf(d) :
                      /\ \A j \in DispatchedOf(d) : k <= j
                      /\ SlotOf(v_validator, d).val = LinesDispatched[k]
        /\ (/\ v_last.line_called
            /\ IsDirectiveLine(v_last.line, d)
            /\ SlotOf(v_last.before, d).some) =>
              v_last.line_diags =
                  <<Diagnostic(LineRange(SlotOf(v_last.before, d).val),
                               NameOf(d) \o " declared here.", "Hint"),
                    Diagnostic(LineRange(v_last.line),
                               NameOf(d) \o " already declared.", "Error")>>

\* A well-formed `.class` line arrived after a first `.class` line of invalid
\* shape, whose shape diagnostics were returned.
C18_Witness ==
    /\ v_last.line_called
    /\ IsDirectiveLine(v_last.line, S_class)
    /\ Len(v_last.line) = 3
    /\ SlotOf(v_last.before, S_class).some
    /\ Len(SlotOf(v_last.before, S_class).val) = 1
    /\ Len(v_diags) > Len(v_last.line_diags)
    /\ v_diags[1].severity = "Error"
-----------------------------------------------------------------------------
(* Properties of the constructor slots *)

\* The kind of constructor a `.method` line declares.
ConstructorKind(line) ==
    IF line[1].content # S_method \/ NameTokens(line) = {} THEN "none"
    ELSE IF ~HasModifier(line, S_constructor) THEN "none"
    ELSE IF HasModifier(line, S_static) THEN "static"
    ELSE "virtual"

\* The positions, among the lines passed to the line callback before the
\* last one, of the constructor declarations of a kind.
EarlierOfKind(kind) ==
    {k \in 1..(Len(LinesDispatched) - 1) :
        IsMethodLine(LinesDispatched[k]) /\ ConstructorKind(LinesDispatched[k]) = kind}

FirstOfKind(kind) ==
    LinesDispatched[CHOOSE k \in EarlierOfKind(kind) : \A j \in EarlierOfKind(kind) : k <= j]

DefinedHere(kind) ==
    IF kind = "static" THEN "Static constuctor defined here." ELSE "Constuctor defined here."

AlreadyDefined(kind) ==
    IF kind = "static" THEN "Static constuctor already defined."
    ELSE "Constuctor already defined."

\* The last line got the Hint at the first constructor of the kind and the
\* Error at itself.
DuplicatePair(kind) ==
    /\ Has(v_last.line_diags, "Hint", DefinedHere(kind), LineRange(FirstOfKind(kind)))
    /\ Has(v_last.line_diags, "Error", AlreadyDefined(kind), LineRange(v_last.line))

\* The last step passed a constructor declaration of a kind to the line
\* callback, and it was not the first of its kind.
DuplicateStepped(kind) ==
    /\ MethodLineStepped
    /\ ConstructorKind(v_last.line) = kind
    /\ EarlierOfKind(kind) # {}

-----------------------------------------------------------------------------
(* main.rs: one open Document, its content behind a tokio RwLock, and the  *)
(* did_change handlers that run concurrently on it.  Each handler applies   *)
(* one content change (Document::update) and then validates                *)
(* (Backend::validate).                                                    *)

\* helper.rs: lsp_range_to_range
lsp_range_to_range(range, content) ==
    [abort |-> \/ lsp_pos_to_pos(range.start.line, range.start.character, content).abort
               \/ lsp_pos_to_pos(range.end.line, range.end.character, content).abort,
     start |-> lsp_pos_to_pos(range.start.line, range.start.character, content).off,
     end   |-> lsp_pos_to_pos(range.end.line, range.end.character, content).off]

\* String::replace_range asserts that both ends are character boundaries of
\* the text (so not past its end), and its splice that start <= end, before
\* it changes anything.
replace_range_ok(content, range) ==
    /\ range.start <= Len(content) /\ is_char_boundary(content, range.start)
    /\ range.end <= Len(content) /\ is_char_boundary(content, range.end)
    /\ range.start <= range.end

\* The two halves of the splice of replace_range: the bytes of the range are
\* taken out, then the new bytes are put in their place.
SpliceOut(content, range) ==
    SubSeq(content, 1, range.start) \o SubSeq(content, range.end + 1, Len(content))

SpliceIn(content, range, text) ==
    (SubSeq(content, 1, range.start) \o text) \o SubSeq(content, range.start + 1, Len(content))

\* Mutant of CanRead: a read guard is handed out while a write guard is held.
CanRead_any(writers) == TRUE

\* tokio::sync::RwLock: read() completes when no write guard is held,
\* write() when no guard is held at all.
CanRead(writers) == writers = {}

CanWrite(readers, writers) == readers = {} /\ writers = {}

LspPos(l, c) == [line |-> l, character |-> c]

\* The text of the document when the handlers start, and the content changes
\* the client may send.
OpenedText == <<"a", "b", NL, "c">>

DocEdits ==
    { [range |-> [start |-> LspPos(0, 0), end |-> LspPos(0, 1)], text |-> <<>>],
      [range |-> [start |-> LspPos(1, 0), end |-> LspPos(1, 1)], text |-> <<"x", "y">>],
      [range |-> [start |-> LspPos(0, 2), end |-> LspPos(1, 0)], text |-> <<>>],
      [range |-> [start |-> LspPos(0, 3), end |-> LspPos(0, 3)], text |-> <<"x">>] }

DocInit ==
    /\ d_content = OpenedText
    /\ d_readers = {}
    /\ d_writers = {}
    /\ d_pc = [p \in Handlers |-> "idle"]
    /\ d_edit = [p \in Handlers |-> NoEdit]
    /\ d_range = [p \in Handlers |-> NoRange]
    /\ d_snapshot = [p \in Handlers |-> NoSnapshot]
    /\ d_torn = FALSE
    /\ d_versions = <<OpenedText>>
    /\ d_published = <<>>

\* Document::update, self.content.read().await for a content change.
UpdateRead(p) ==
    /\ d_pc[p] = "idle"
    /\ CanRead(d_writers)
    /\ \E e \in DocEdits : d_edit' = [d_edit EXCEPT ![p] = e]
    /\ d_readers' = d_readers \cup {p}
    /\ d_pc' = [d_pc EXCEPT ![p] = "range"]
    /\ UNCHANGED <<d_content, d_writers, d_range, d_snapshot, d_torn, d_versions, d_published, notDoc>>

\* The end of the let statement: r is what lsp_range_to_range returned (a
\* panic in it ends the handler); the read guard is dropped.  seen is a
\* ghost: the number of the stored text that was translated against.
RangeComputed(p, r) ==
    /\ d_range' = [d_range EXCEPT ![p] =
                      [abort |-> r.abort, start |-> r.start, end |-> r.end,
                       seen |-> Len(d_versions)]]
    /\ d_pc' = [d_pc EXCEPT ![p] = IF r.abort THEN "panicked" ELSE "computed"]
    /\ d_readers' = d_readers \ {p}

\* let range = lsp_range_to_range(range, &self.content.read().await);
UpdateRange(p) ==
    /\ d_pc[p] = "range"
    /\ RangeComputed(p, lsp_range_to_range(d_edit[p].range, d_content))
    /\ UNCHANGED <<d_content, d_writers, d_edit, d_snapshot, d_torn, d_versions, d_published, notDoc>>

\* self.content.write().await
UpdateWrite(p) ==
    /\ d_pc[p] = "computed"
    /\ CanWrite(d_readers, d_writers)
    /\ d_writers' = d_writers \cup {p}
    /\ d_pc' = [d_pc EXCEPT ![p] = "write"]
    /\ UNCHANGED <<d_content, d_readers, d_edit, d_range, d_snapshot, d_torn, d_versions,
                   d_published, notDoc>>

\* .replace_range(range, &content), first half: the checks, then the bytes of
\* the range are taken out.  A failed check panics: the handler ends and its
\* write guard is dropped.
SpliceRemove(p) ==
    /\ d_pc[p] = "write"
    /\ IF replace_range_ok(d_content, d_range[p])
       THEN /\ d_content' = SpliceOut(d_content, d_range[p])
            /\ d_torn' = TRUE
            /\ d_pc' = [d_pc EXCEPT ![p] = "splicing"]
            /\ UNCHANGED d_writers
       ELSE /\ d_pc' = [d_pc EXCEPT ![p] = "panicked"]
            /\ d_writers' = d_writers \ {p}
            /\ UNCHANGED <<d_content, d_torn>>
    /\ UNCHANGED <<d_readers, d_edit, d_range, d_snapshot, d_versions, d_published, notDoc>>

\* .replace_range(range, &content), second half: the new bytes are put in;
\* the write guard is dropped at the end of the statement.
SpliceInsert(p) ==
    /\ d_pc[p] = "splicing"
    /\ d_content' = SpliceIn(d_content, d_range[p], d_edit[p].text)
    /\ d_torn' = FALSE
    /\ d_versions' = Append(d_versions, d_content')
    /\ d_writers' = d_writers \ {p}
    /\ d_pc' = [d_pc EXCEPT ![p] = "updated"]
    /\ UNCHANGED <<d_readers, d_edit, d_range, d_snapshot, d_published, notDoc>>

\* Backend::validate, let lock = doc.content.read().await;
ValidateRead(p) ==
    /\ d_pc[p] = "updated"
    /\ CanRead(d_writers)
    /\ d_readers' = d_readers \cup {p}
    /\ d_pc' = [d_pc EXCEPT ![p] = "clone"]
    /\ UNCHANGED <<d_content, d_writers, d_edit, d_range, d_snapshot, d_torn, d_versions,
                   d_published, notDoc>>

\* lock.clone(); the guard is dropped at the end of the block and the copy
\* goes to validate(content).
ValidateClone(p) ==
    /\ d_pc[p] = "clone"
    /\ d_snapshot' = [d_snapshot EXCEPT ![p] =
                         [taken |-> TRUE, text |-> d_content, torn |-> d_torn]]
    /\ d_readers' = d_readers \ {p}
    /\ d_pc' = [d_pc EXCEPT ![p] = "validating"]
    /\ UNCHANGED <<d_content, d_writers, d_edit, d_range, d_torn, d_versions, d_published, notDoc>>

\* Mutant of Publish: a result computed from a text that is no longer the
\* stored one is dropped.
Publish_newest_only(p) ==
    /\ d_pc[p] = "validating"
    /\ d_published' = IF d_snapshot[p].text = d_content
                      THEN Append(d_published, [handler |-> p, text |-> d_snapshot[p].text])
                      ELSE d_published
    /\ d_pc' = [d_pc EXCEPT ![p] = "published"]
    /\ UNCHANGED <<d_content, d_readers, d_writers, d_edit, d_range, d_snapshot, d_torn,
                   d_versions, notDoc>>

\* match validate(content) { Ok(diags) => self.client.publish_diagnostics(uri, diags, None).await
\* The diagnostics are a function of the text validated, which stands for them.
Publish(p) ==
    /\ d_pc[p] = "validating"
    /\ d_published' = Append(d_published, [handler |-> p, text |-> d_snapshot[p].text])
    /\ d_pc' = [d_pc EXCEPT ![p] = "published"]
    /\ UNCHANGED <<d_content, d_readers, d_writers, d_edit, d_range, d_snapshot, d_torn,
                   d_versions, notDoc>>

DocNext ==
    \E p \in Handlers :
        \/ UpdateRead(p)
        \/ UpdateRange(p)
        \/ UpdateWrite(p)
        \/ SpliceRemove(p)
        \/ SpliceInsert(p)
        \/ ValidateRead(p)
        \/ ValidateClone(p)
        \/ Publish(p)

DocSpecInit == DocInit /\ PosIdle /\ LexIdle /\ ValIdle /\ TrimIdle /\ HdrIdle /\ CacheIdle
SpecDoc == DocSpecInit /\ [][DocNext]_vars

\* C20: at most one handler splices the text at a time, no handler reads it
\* while a splice is under way, and every text handed to validate is the
\* complete stored text as it stood at the start or after a finished splice,
\* never a text with a splice half applied.
C20_SingleWriter ==
    /\ Cardinality(d_writers) <= 1
    /\ d_writers # {} => d_readers = {}
    /\ d_torn => d_writers # {}
    /\ \A p \in Handlers :
          d_snapshot[p].taken =>
              /\ ~d_snapshot[p].torn
              /\ \E k \in DOMAIN d_versions : d_snapshot[p].text = d_versions[k]

\* Two handlers spliced one after the other, and the first validated the
\* text as it stood between the two splices.
C20_Witness ==
    /\ Len(d_versions) = 3
    /\ \E p \in Handlers :
          /\ d_snapshot[p].taken
          /\ d_snapshot[p].text = d_versions[2]
          /\ d_versions[2] # d_versions[3]
          /\ d_versions[2] # d_versions[1]
-----------------------------------------------------------------------------
(* Properties of the publications *)

PublishedBy(p) == {k \in DOMAIN d_published : d_published[k].handler = p}

\* C21: every did_change handler whose update returned validates on its own
\* and publishes its own result, whatever the other handlers published: a
\* handler that went through validate has exactly one publication, computed
\* from the text it cloned itself, and no other.  Nothing orders the
\* publications by the age of their text (C21_Witness is reachable).
C21_IndependentValidations ==
    /\ \A p \in Handlers :
          Cardinality(PublishedBy(p)) = IF d_pc[p] = "published" THEN 1 ELSE 0
    /\ \A k \in DOMAIN d_published :
          /\ d_snapshot[d_published[k].handler].taken
          /\ d_published[k].text = d_snapshot[d_published[k].handler].text

\* All handlers have finished and published, and the publication sent last
\* was computed from a text older than the stored one.
C21_Witness ==
    /\ \A p \in Handlers : d_pc[p] = "published"
    /\ Len(d_published) = MaxHandlers
    /\ d_published[Len(d_published)].text # d_content
    /\ \E k \in 1..(Len(d_versions) - 1) :
          d_published[Len(d_published)].text = d_versions[k]
    /\ d_content = d_versions[Len(d_versions)]
-----------------------------------------------------------------------------
(* Properties of the return instructions outside a method block *)

\* The last step handed a Return token to the token callback.
ReturnStepped ==
    /\ v_last.kind = "token"
    /\ LastToken.token_type = "Return"

\* The token callback gave no diagnostic and left the method validator as it was.
NoEffect ==
    /\ v_last.token_diags = <<>>
    /\ v_validator.method_validator = v_last.before.method_validator

\* C22: a Return token dispatched while no method block is open, before any
\* `.method` line or after `.end method` closed the tracked block, yields no
\* diagnostic and leaves the method validator unchanged.
C22_ReturnOutsideBlock ==
    (ReturnStepped /\ ~IsOpen(v_last.before)) => NoEffect

\* The same for a Return token dispatched while no method is tracked at all.
C22_ReturnBeforeAnyMethod ==
    (ReturnStepped /\ ~v_last.before.method_validator.method_decl.some) => NoEffect
-----------------------------------------------------------------------------
(* Properties of the `.end method` line *)

NoReturnFound == "No return instruction found in method block."

\* The last step handed an `.end method` line to the line callback.
EndMethodStepped ==
    /\ v_last.line_called
    /\ IsMethodLine(v_last.line)
    /\ v_last.line[1].content # S_method

\* C23: an `.end method` line arriving while no method is tracked or the
\* tracked block is closed gets the Error "'.end method' directive must be at
\* the end of a method block." and leaves the method validator unchanged; one
\* arriving while a block is open in which no return was observed gets the
\* Error "No return instruction found in method block." anchored at the
\* `.method` declaration line; and every one arriving while a block is open
\* closes it, so that the next one finds no open block.
C23_EndMethod ==
    EndMethodStepped =>
        IF ~IsOpen(v_last.before)
        THEN /\ Has(v_last.line_diags, "Error", UnmatchedEnd, LineRange(v_last.line))
             /\ v_validator.method_validator = v_last.before.method_validator
        ELSE /\ ~Tracked.found_return =>
                    /\ Tracked.tokens[1].content = S_method
                    /\ Has(v_last.line_diags, "Error", NoReturnFound, LineRange(Tracked.tokens))
             /\ v_validator.method_validator.method_decl.some
             /\ ~IsOpen(v_validator)

\* An `.end method` line closed an open block in which no return was observed.
C23_Witness ==
    /\ EndMethodStepped
    /\ IsOpen(v_last.before)
    /\ ~Tracked.found_return
    /\ Has(v_last.line_diags, "Error", NoReturnFound, LineRange(Tracked.tokens))
    /\ ~IsOpen(v_validator)
-----------------------------------------------------------------------------
(* validate on documents of declared return types and return instructions *)

S_return      == <<"r", "e", "t", "u", "r", "n">>
S_return_wide == <<"r", "e", "t", "u", "r", "n", "-", "w", "i", "d", "e">>

DeclaredDocLines ==
    { S_method \o <<" ", "a", "(", ")">>,
      S_method \o <<" ", "a", "(", ")", "I">>,
      S_return,
      S_return_void,
      S_return_object,
      S_return_wide }

DeclaredDocs == DocsOf(DeclaredDocLines)

DeclaredInit == v_content \in DeclaredDocs /\ ValEntry

DeclaredSpecInit == DeclaredInit /\ PosIdle /\ LexIdle /\ TrimIdle /\ DocIdle /\ HdrIdle /\ CacheIdle
SpecDeclared == DeclaredSpecInit /\ [][Next]_vars

\* The index of the closing parenthesis of a `.method` line, 0 when it has none.
ParenIdx(line) ==
    IF \E k \in DOMAIN line : line[k].content = S_rparen
    THEN CHOOSE k \in DOMAIN line : line[k].content = S_rparen /\
                                    \A j \in 1..(k - 1) : line[j].content # S_rparen
    ELSE 0

\* The line closes its parameter list and no return type follows.
NoReturnType(line) == ParenIdx(line) > 0 /\ AfterParen(line) = {}

\* A `.method` line without a return type reached the line callback while
\* no block was open.
NoReturnTypeStepped ==
    /\ MethodLineStepped
    /\ ~IsOpen(v_last.before)
    /\ NoReturnType(v_last.line)

\* C24: a `.method` line on which no return type follows the closing
\* parenthesis gets an Error diagnostic on that line when it is processed.
C24_MissingReturnType ==
    NoReturnTypeStepped =>
        \E k \in DOMAIN v_last.line_diags :
            /\ v_last.line_diags[k].severity = "Error"
            /\ v_last.line_diags[k].range.start.line = v_last.line[1].range.start.line
-----------------------------------------------------------------------------
(* Properties of the severities *)

\* The messages that point at an original declaration.
CrossReferences ==
    { "Class declared here.", "Super declared here.", "Source declared here.",
      "Visibility modifier defined here.", "Final modifier defined here.",
      "Synthetic modifier defined here.",
      "Visibility modifier declared here.", "Constuctor modifier declared here.",
      "Final modifier declared here.", "Static modifier declared here.",
      "Static constuctor defined here.", "Constuctor defined here.",
      "Method block starts here.", "Method block ends here.",
      "Return type declared here." }

UnresolvedReturnType == "Unable to get return type from method declaration."

\* C25: every diagnostic that points at an original declaration is a Hint,
\* and no other diagnostic is; an Information diagnostic is the one for a
\* return type that cannot be resolved.
C25_SeverityByRole ==
    \A k \in DOMAIN v_diags :
        /\ v_diags[k].message \in CrossReferences <=> v_diags[k].severity = "Hint"
        /\ v_diags[k].severity = "Information" => v_diags[k].message = UnresolvedReturnType

\* The same with the modifiers named by a constructor naming mismatch left out.
C25_SeverityByRoleButNaming ==
    \A k \in DOMAIN v_diags :
        /\ v_diags[k].message \in CrossReferences <=>
              \/ v_diags[k].severity = "Hint"
              \/ /\ v_diags[k].severity = "Error"
                 /\ v_diags[k].message \in {"Constuctor modifier declared here.",
                                            "Static modifier declared here."}
        /\ v_diags[k].severity = "Information" => v_diags[k].message = UnresolvedReturnType
-----------------------------------------------------------------------------
(* HeaderValidator::validate_line called with one header line on a new validator *)

S_quoted == <<"\"", "a", "\"">>
S_La     == <<"L", "a", ";">>

\* The pieces that follow `.class`, and those that follow the other directives.
ClassChunks ==
    { <<" ">> \o W_public, <<" ">> \o S_final, <<" ">> \o S_synthetic,
      <<" ">> \o S_static, <<" ">> \o S_La, <<" ", "1">>, S_La }

SimpleChunks == { <<" ">> \o S_La, <<" ">> \o S_quoted, S_La, S_quoted }

RECURSIVE Concat(_)
Concat(ss) == IF ss = <<>> THEN <<>> ELSE Head(ss) \o Concat(Tail(ss))

HeaderLineTexts ==
    {S_class \o Concat(cs) : cs \in SeqsUpTo(ClassChunks, MaxLineChunks)}
    \cup {d \o Concat(cs) : d \in {S_super, S_source, S_implements},
                            cs \in SeqsUpTo(SimpleChunks, MaxLineChunks)}

HdrInit ==
    /\ h_text \in HeaderLineTexts
    /\ h_line = <<>>
    /\ h_out = [diags |-> <<>>]
    /\ h_pc = "called"

\* diags.append(&mut directives_validator.validate_line(&line)), the part of
\* the header validator, for the line the engine built.
HeaderLineWith(line) ==
    /\ h_line' = line
    /\ h_out' = IF line # <<>> THEN HeaderValidateLine(HeaderValidatorDefault, line)
                ELSE [state |-> HeaderValidatorDefault, diags |-> <<>>]

CallHeaderLine ==
    /\ h_pc = "called"
    /\ HeaderLineWith(trim_space_tokens(lex_str(h_text)))
    /\ h_pc' = "returned"
    /\ UNCHANGED <<h_text, notHdr>>

HdrNext == CallHeaderLine

HdrSpecInit == HdrInit /\ PosIdle /\ LexIdle /\ ValIdle /\ TrimIdle /\ DocIdle /\ CacheIdle
SpecLine == HdrSpecInit /\ [][HdrNext]_vars

-----------------------------------------------------------------------------
(* Properties of the `.class` line *)

Indices(line, type) == {k \in DOMAIN line : line[k].token_type = type}

WithContent(line, type, content) ==
    {k \in Indices(line, type) : line[k].content = content}

\* Directive, one Space token, at most one Visibility token, `final` and
\* `synthetic` at most once each and no `static`, separated by Space tokens,
\* then one Class token, then nothing but Space.
ClassShape(line) ==
    /\ Len(line) >= 3
    /\ line[2].token_type = "Space"
    /\ \E c \in 3..Len(line) :
          /\ line[c].token_type = "Class"
          /\ \A k \in 3..(c - 1) :
                \/ line[k].token_type \in {"Space", "Visibility"}
                \/ line[k].token_type = "Modifier" /\ line[k].content \in {S_final, S_synthetic}
          /\ \A k \in (c + 1)..Len(line) : line[k].token_type = "Space"
    /\ Cardinality(Indices(line, "Visibility")) <= 1
    /\ Cardinality(WithContent(line, "Modifier", S_final)) <= 1
    /\ Cardinality(WithContent(line, "Modifier", S_synthetic)) <= 1

ClassLineReturned == h_pc = "returned" /\ IsClassLine(h_line)

\* C26: a first `.class` line gets no diagnostic exactly when it has the
\* shape ClassShape; a line without a Class token and a line with a token of
\* another kind before the Class token get one.
C26_ClassShape ==
    ClassLineReturned => (h_out.diags = <<>> <=> ClassShape(h_line))

\* A line of the shape gets no diagnostic.
C26_ClassShapeAccepted ==
    (ClassLineReturned /\ ClassShape(h_line)) => h_out.diags = <<>>

\* The tokens before the first Class token that the loop passes over.
PassedOver(line) ==
    {k \in 3..Len(line) :
        /\ \A j \in 3..k : line[j].token_type # "Class"
        /\ line[k].token_type \notin {"Space", "Visibility", "Modifier"}}

\* A line that gets no diagnostic has the shape, but for a missing Class
\* token and for tokens of other kinds before the Class token.
C26_ClassShapeButClass ==
    (ClassLineReturned /\ h_out.diags = <<>> /\ ~ClassShape(h_line)) =>
        \/ Indices(h_line, "Class") = {}
        \/ PassedOver(h_line) # {}
-----------------------------------------------------------------------------
(* Properties of the `.super`, `.source` and `.implements` lines *)

SimpleLineReturned ==
    /\ h_pc = "returned"
    /\ h_line[1].token_type = "Directive"
    /\ h_line[1].content \in {S_super, S_source, S_implements}

WithMessage(diags, message) == {k \in DOMAIN diags : diags[k].message = message}

\* The kind of token the directive takes, and the message when it is missing.
OperandKind(d)    == IF d = S_source THEN "String" ELSE "Class"
OperandMessage(d) == IF d = S_source THEN "String expected." ELSE "Class expected."

\* C27: a `.super`, `.source` or `.implements` line of fewer than three
\* tokens gets one usage Error spanning the line and nothing else; a longer
\* one gets "Space expected." exactly when token 1 is not Space, "Class
\* expected." ("String expected." for `.source`) exactly when token 2 is not
\* of the kind the directive takes, one "New line expected." Error for every
\* token from index 3 on, Space tokens included, and nothing else.
C27_SimpleLine ==
    SimpleLineReturned =>
        LET n == Len(h_line)
            d == h_line[1].content
            diags == h_out.diags
        IN  IF n < 3
            THEN diags = <<Diagnostic(LineRange(h_line), UsageMessage(d), "Error")>>
            ELSE /\ Has(diags, "Error", "Space expected.", h_line[2].range)
                        <=> h_line[2].token_type # "Space"
                 /\ Cardinality(WithMessage(diags, "Space expected.")) <= 1
                 /\ Has(diags, "Error", OperandMessage(d), h_line[3].range)
                        <=> h_line[3].token_type # OperandKind(d)
                 /\ Cardinality(WithMessage(diags, OperandMessage(d))) <= 1
                 /\ \A k \in 4..n : Has(diags, "Error", "New line expected.", h_line[k].range)
                 /\ Cardinality(WithMessage(diags, "New line expected.")) = n - 3
                 /\ \A k \in DOMAIN diags :
                        diags[k].message \in {"Space expected.", OperandMessage(d),
                                              "New line expected."}

\* A line with a well-formed operand followed by a Space token and another
\* token got the two "New line expected." Errors and nothing else.
C27_Witness ==
    /\ SimpleLineReturned
    /\ Len(h_line) = 5
    /\ h_line[2].token_type = "Space"
    /\ h_line[3].token_type = OperandKind(h_line[1].content)
    /\ h_line[4].token_type = "Space"
    /\ Len(h_out.diags) = 2
    /\ Has(h_out.diags, "Error", "New line expected.", h_line[4].range)
-----------------------------------------------------------------------------
(* Properties of the end of the stream *)

MissingClass == "Missing class directive."
MissingSuper == "Missing super directive.\nExtend 'Ljava/lang/Object;' by default"

\* validate returned; v_last.token_diags is what validate_end gave.
EndReturned == v_pc = "returned" /\ v_last.kind = "end"

Errors(diags, message) ==
    {k \in DOMAIN diags : diags[k].severity = "Error" /\ diags[k].message = message}

\* C28: at the end of the stream the missing-class Error is given exactly
\* when some line reached the line callback and none of them was a `.class`
\* line, the missing-super Error exactly when some line reached it and none
\* was a `.super` line; nothing is given for a missing `.source`, and nothing
\* at all when no line reached the line callback.
C28_MissingAtEnd ==
    EndReturned =>
        /\ Errors(v_last.token_diags, MissingClass) # {}
              <=> (LinesDispatched # <<>> /\ DispatchedOf(S_class) = {})
        /\ Errors(v_last.token_diags, MissingSuper) # {}
              <=> (LinesDispatched # <<>> /\ DispatchedOf(S_super) = {})
        /\ \A k \in DOMAIN v_last.token_diags :
              v_last.token_diags[k].message \in {MissingClass, MissingSuper}
        /\ LinesDispatched = <<>> => v_last.token_diags = <<>>

\* A document with a `.class` line and neither `.super` nor `.source` got the
\* missing-super Error alone.
C28_Witness ==
    /\ EndReturned
    /\ DispatchedOf(S_class) # {}
    /\ DispatchedOf(S_super) = {}
    /\ DispatchedOf(S_source) = {}
    /\ Errors(v_last.token_diags, MissingSuper) # {}
    /\ Len(v_last.token_diags) = 1
-----------------------------------------------------------------------------
(* Properties of the nested `.method` line *)

\* The last step handed a `.method` line to the line callback while a block
\* was open.
NestedStepped == MethodLineStepped /\ IsOpen(v_last.before)

\* What the declaration scan makes of the line on its own.
Scanned(line) == validate_method_declaration_line(line, MethodValidatorDefault)

\* The lines with a Method directive that reached the line callback.
MethodEvents == SelectSeq(v_log, IsMethodEvent)

\* C29: a `.method` line arriving while a block is open gets the two nesting
\* diagnostics and none of those of its own declaration, and replaces the
\* tracked method by itself: open, no return observed, the return type
\* scanned from the new line; the `.end method` line that follows it closes
\* the block without an Error.
C29_NestedReplaces ==
    /\ NestedStepped =>
          /\ v_last.line_diags =
                <<tokens_to_diagnostic(Tracked.tokens, "Method block starts here.", "Hint"),
                  tokens_to_diagnostic(v_last.line, NestedMethod, "Error")>>
          /\ v_validator.method_validator.method_decl =
                Some(MethodDeclaration(TRUE, FALSE, v_last.line,
                                       Scanned(v_last.line).return_type))
    /\ (/\ EndMethodStepped
        /\ Len(MethodEvents) >= 2
        /\ MethodEvents[Len(MethodEvents) - 1].tokens[1].content = S_method) =>
          /\ ~IsOpen(v_validator)
          /\ ~Has(v_last.line_diags, "Error", UnmatchedEnd, LineRange(v_last.line))

\* A `.method` line whose own declaration has diagnostics arrived while a
\* block was open, and got the nesting pair alone.
C29_Witness ==
    /\ NestedStepped
    /\ Scanned(v_last.line).diags # <<>>
    /\ Len(v_last.line_diags) = 2
    /\ v_validator.method_validator.method_decl.val.tokens = v_last.line
    /\ v_validator.method_validator.method_decl.val.tokens # Tracked.tokens
-----------------------------------------------------------------------------
(* Properties of the return instructions in a method of a builtin return type *)

\* A Return token reached the token callback while a method declared with a
\* builtin return type other than `V` is open.
ReturnInBuiltin ==
    /\ ReturnStepped
    /\ IsOpen(v_last.before)
    /\ AfterParen(Tracked.tokens) # {}
    /\ DeclaredReturnToken(Tracked.tokens).token_type = "BuiltinType"
    /\ DeclaredReturnToken(Tracked.tokens).content # S_V

\* C30: in an open method declared with a builtin return type other than
\* `V`, a return instruction of any form gets no diagnostic and marks the
\* return as observed.
C30_BuiltinReturnUnchecked ==
    ReturnInBuiltin =>
        /\ v_last.token_diags = <<>>
        /\ v_validator.method_validator.method_decl =
              Some([Tracked EXCEPT !.found_return = TRUE])

\* `return-void` arrived as the first return instruction of a method
\* declared with a builtin type other than `V`, and was let through.
C30_Witness ==
    /\ ReturnInBuiltin
    /\ LastToken.content = S_return_void
    /\ ~Tracked.found_return
    /\ v_validator.method_validator.method_decl.val.found_return
    /\ v_last.token_diags = <<>>
-----------------------------------------------------------------------------
(* Properties of the return instructions in a method of unknown return type *)

\* A Return token reached the token callback while a method whose `.method`
\* line has no return type is open.
ReturnInUnknown ==
    /\ ReturnStepped
    /\ IsOpen(v_last.before)
    /\ Tracked.tokens[1].content = S_method
    /\ NoReturnType(Tracked.tokens)

\* C31: in an open method whose `.method` line gave no return type, every
\* return token gets one Information diagnostic anchored at it and nothing
\* else, and marks the return as observed.
C31_UnknownReturnInformation ==
    ReturnInUnknown =>
        /\ v_last.token_diags =
              <<to_diagnostic(LastToken, UnresolvedReturnType, "Information")>>
        /\ v_validator.method_validator.method_decl =
              Some([Tracked EXCEPT !.found_return = TRUE])

\* A second return instruction of such a method got its Information
\* diagnostic like the first.
C31_Witness ==
    /\ ReturnInUnknown
    /\ Tracked.found_return
    /\ Len(v_last.token_diags) = 1
    /\ v_last.token_diags[1].severity = "Information"
    /\ v_last.token_diags[1].range = LastToken.range
    /\ Len(v_diags) = 2
-----------------------------------------------------------------------------
(* Properties of the order of the returned list *)

\* The two validators and the diagnostics after one more callback: the
\* header validator's outcome hl, then the method validator's outcome ml.
Emitted(acc, hl, ml) ==
    [h |-> hl.state, m |-> ml.state, diags |-> (acc.diags \o hl.diags) \o ml.diags]

EmitEvent(acc, e) ==
    IF e.kind = "line"
    THEN Emitted(acc, HeaderValidateLine(acc.h, e.tokens), MethodValidateLine(acc.m, e.tokens))
    ELSE Emitted(acc, [state |-> HeaderValidateToken(acc.h, e.tokens[1]), diags |-> <<>>],
                 MethodValidateToken(acc.m, e.tokens[1]))

\* The callbacks of log from the k-th on, run one after the other; a callback
\* that panics is the last one.
RECURSIVE EmitFrom(_, _, _)
EmitFrom(log, k, acc) ==
    IF k > Len(log) \/ Panics(acc.diags) THEN acc
    ELSE EmitFrom(log, k + 1, EmitEvent(acc, log[k]))

\* The end-of-stream diagnostics of the header validator h: the missing
\* class first, then the missing super.
EndInOrder(h) ==
    IF ~h.top_line.some THEN <<>>
    ELSE (IF h.class_declaration.some THEN <<>>
          ELSE <<tokens_to_diagnostic(h.top_line.val, MissingClass, "Error")>>)
         \o (IF h.super_declaration.some THEN <<>>
             ELSE <<tokens_to_diagnostic(h.top_line.val, MissingSuper, "Error")>>)

InEmissionOrder(r) ==
    /\ v_pc = "loop" => v_diags = r.diags
    /\ v_pc = "returned" => v_diags = r.diags \o EndInOrder(r.h)

\* C32: the list is in the order of emission: the diagnostics of the
\* callbacks in the order the callbacks ran, for each callback those of the
\* header validator before those of the method validator, and after all of
\* them the end-of-stream diagnostics, missing class before missing super.
C32_EmissionOrder ==
    v_pc \in {"loop", "returned"} =>
        InEmissionOrder(EmitFrom(v_log, 1,
            [h |-> HeaderValidatorDefault, m |-> MethodValidatorDefault, diags |-> <<>>]))

\* A returned list with a token-level Error, after it a line-level Error, and
\* the two end-of-stream Errors last.
C32_Witness ==
    /\ v_pc = "returned"
    /\ Len(v_diags) >= 4
    /\ v_diags[Len(v_diags) - 1].message = MissingClass
    /\ v_diags[Len(v_diags)].message = MissingSuper
    /\ \E i, j \in 1..(Len(v_diags) - 2) :
          /\ i < j
          /\ v_diags[i].message = "'return-void' expected."
          /\ v_diags[j].message = NestedMethod
-----------------------------------------------------------------------------
(* validate on documents with a return instruction on a directive's line *)

InlineDocLines ==
    { <<".", "m", "e", "t", "h", "o", "d", " ", "a", "(", ")", "L", "a", ";">>,
      <<".", "m", "e", "t", "h", "o", "d", " ", "a", "(", ")", "V", " ",
        "r", "e", "t", "u", "r", "n", "-", "v", "o", "i", "d">>,
      <<".", "e", "n", "d", " ", "m", "e", "t", "h", "o", "d", " ",
        "r", "e", "t", "u", "r", "n", "-", "v", "o", "i", "d">>,
      <<".", "e", "n", "d", " ", "m", "e", "t", "h", "o", "d">>,
      <<"r", "e", "t", "u", "r", "n", "-", "o", "b", "j", "e", "c", "t">> }

InlineDocs == DocsOf(InlineDocLines)

InlineInit == v_content \in InlineDocs /\ ValEntry

InlineSpecInit == InlineInit /\ PosIdle /\ LexIdle /\ TrimIdle /\ DocIdle /\ HdrIdle /\ CacheIdle
SpecInline == InlineSpecInit /\ [][Next]_vars

\* The line callback event at position k of the log comes after the token
\* callback of each of its tokens and right before the token callback of the
\* NewLine token that ends its line.
LineEventInOrder(k) ==
    /\ \A i \in DOMAIN v_log[k].tokens :
            \E j \in 1..(k - 1) : v_log[j] = TokenEvent(v_log[k].tokens[i])
    /\ k < Len(v_log)
    /\ v_log[k + 1].kind = "token"
    /\ v_log[k + 1].tokens[1].token_type = "NewLine"
    /\ v_log[k + 1].tokens[1].range.start = v_log[k].tokens[Len(v_log[k].tokens)].range.end

\* The last step handed a Return token that stands on a `.method` line to the
\* token callback.
ReturnOnMethodLine ==
    /\ ReturnStepped
    /\ IsMethodLine(v_current_line)
    /\ v_current_line[1].content = S_method

\* The last step handed an `.end method` line with a Return token on it to
\* the line callback while a block was open.
EndWithReturn ==
    /\ EndMethodStepped
    /\ IsOpen(v_last.before)
    /\ \E i \in DOMAIN v_last.line : v_last.line[i].token_type = "Return"

\* C33: the token callbacks of all tokens of a line run before that line's
\* line callback, and the line callback runs before the token callback of the
\* NewLine token that ends the line; so a Return token on a `.method` line
\* is checked against the declaration tracked before that line (none: no
\* diagnostic; an earlier open declaration: that one's return type), and a
\* Return token on an `.end method` line counts as a return of the block the
\* line closes.
C33_CallbackOrder ==
    /\ \A k \in DOMAIN v_log : IsLineEvent(v_log[k]) => LineEventInOrder(k)
    /\ ReturnOnMethodLine =>
            /\ v_validator.method_validator.method_decl = 
                   IF v_last.before.method_validator.method_decl.some
                   THEN Some([Tracked EXCEPT !.found_return = TRUE])
                   ELSE None
            /\ IF ~v_last.before.method_validator.method_decl.some
               THEN v_last.token_diags = <<>>
               ELSE /\ Tracked.tokens[1].range.start.line < LastToken.range.start.line
                    /\ \A kind \in {"Void", "Class"} :
                           ReturnIn(kind) =>
                               IF LastToken.content = Accepts(kind)
                               THEN v_last.token_diags = <<>>
                               ELSE MismatchPair(v_last.token_diags)
    /\ EndWithReturn =>
            /\ Tracked.found_return
            /\ WithMessage(v_last.line_diags, NoReturnFound) = {}

\* A Return token on a `.method` line that declares V was checked against the
\* return type La; of the block open before it, and a Return token on the
\* `.end method` line was the only one of the block that line closed.
C33_Witness ==
    \/ /\ ReturnOnMethodLine
       /\ ReturnIn("Class")
       /\ MismatchPair(v_last.token_diags)
    \/ /\ EndWithReturn
       /\ Len(SelectSeq(TokensDispatched, LAMBDA t : t.token_type = "Return")) = 1
       /\ WithMessage(v_last.line_diags, NoReturnFound) = {}
-----------------------------------------------------------------------------
(* Properties of the observed return *)

\* The position in the log of the line callback that stored the declaration
\* tracked before the last step (the last step appended two events).
TrackedAt ==
    CHOOSE p \in 1..(Len(v_log) - 2) :
        /\ v_log[p] = LineEvent(Tracked.tokens)
        /\ \A q \in (p + 1)..(Len(v_log) - 2) : v_log[q] # LineEvent(Tracked.tokens)

\* The positions of the Return tokens dispatched after position p and before
\* the line callback of the last step.
ReturnsSince(p) ==
    {j \in (p + 1)..(Len(v_log) - 2) :
        v_log[j].kind = "token" /\ v_log[j].tokens[1].token_type = "Return"}

\* The last step handed an `.end method` line to the line callback while a
\* block was open.
ClosingStepped == EndMethodStepped /\ IsOpen(v_last.before)

\* C34: an `.end method` line that closes an open block gets the Error "No
\* return instruction found in method block." if and only if no Return token
\* was passed to the token callback since the line callback of the tracked
\* `.method` line; a return instruction that does not fit the declared
\* return type counts as well.
C34_NoReturnFound ==
    ClosingStepped =>
        /\ \E p \in 1..(Len(v_log) - 2) : v_log[p] = LineEvent(Tracked.tokens)
        /\ (WithMessage(v_last.line_diags, NoReturnFound) # {}) <=> (ReturnsSince(TrackedAt) = {})
        /\ \A k \in WithMessage(v_last.line_diags, NoReturnFound) :
                /\ v_last.line_diags[k].severity = "Error"
                /\ v_last.line_diags[k].range = LineRange(Tracked.tokens)

\* An `.end method` line closed a block declared La; whose only return
\* instruction was a return-void.
C34_Witness ==
    /\ ClosingStepped
    /\ Tracked.return_type.kind = "Class"
    /\ ReturnsSince(TrackedAt) # {}
    /\ \A j \in ReturnsSince(TrackedAt) : v_log[j].tokens[1].content = S_return_void
    /\ WithMessage(v_last.line_diags, NoReturnFound) = {}
-----------------------------------------------------------------------------
(* Properties of the constructor slots *)

\* The constructor slot of a kind in a validator.
Slot(dv, kind) ==
    IF kind = "static" THEN dv.method_validator.constructor_static
    ELSE dv.method_validator.constructor_virtual

\* The positions, among lines, of the constructor declarations of a kind.
OfKind(lines, kind) ==
    {k \in DOMAIN lines : IsMethodLine(lines[k]) /\ ConstructorKind(lines[k]) = kind}

\* What the first of the constructor declarations at positions ks of lines,
\* if any, leaves in its slot.
FirstSlotOf(lines, ks) ==
    IF ks = {} THEN None
    ELSE Some(MethodDeclaration(TRUE, TRUE,
            lines[CHOOSE k \in ks : \A j \in ks : k <= j], ReturnTypeVoid))

FirstSlotIn(lines, kind) == FirstSlotOf(lines, OfKind(lines, kind))

\* The slot of a kind after the lines passed to the line callback so far.
FirstSlot(kind) == FirstSlotIn(LinesDispatched, kind)

\* C35: each constructor slot is written once in a run: a filled slot is
\* left as it is by every later callback, an empty one is filled exactly by
\* the line callback of a `.method` line with `constructor` and the fitting
\* `static`, whatever its name and also inside an open method block, and by
\* no other line and no token; so at every point of the loop the slot holds
\* the first such line, or nothing when there was none.
C35_SlotsWriteOnce ==
    \A kind \in {"static", "virtual"} :
        /\ (v_pc \in {"loop", "returned"} /\ v_last.kind \in {"newline", "end"}) =>
              Slot(v_validator, kind) = FirstSlot(kind)
        /\ (v_pc \in {"loop", "returned"} /\ v_last.kind # "none") =>
              IF Slot(v_last.before, kind).some
              THEN Slot(v_validator, kind) = Slot(v_last.before, kind)
              ELSE Slot(v_validator, kind).some <=>
                        (MethodLineStepped /\ ConstructorKind(v_last.line) = kind)

\* A misnamed constructor declaration that arrived inside an open method
\* block took the empty instance slot, and a later one left it alone.
C35_Witness ==
    /\ MethodLineStepped
    /\ ConstructorKind(v_last.line) = "virtual"
    /\ Slot(v_last.before, "virtual").some
    /\ Slot(v_validator, "virtual").val.tokens # v_last.line
    /\ NameMismatch(Slot(v_validator, "virtual").val.tokens)
    /\ \E k \in DOMAIN LinesDispatched :
            /\ k > 1
            /\ LinesDispatched[k] = Slot(v_validator, "virtual").val.tokens
            /\ IsMethodLine(LinesDispatched[k - 1])
            /\ LinesDispatched[k - 1][1].content = S_method
-----------------------------------------------------------------------------
(* Properties of the byte range of an edit *)

\* Handler p holds the write guard and is about to splice.
AboutToSplice(p) == d_pc[p] = "write"

\* C36: for every incremental edit that is applied, the byte range of the
\* splice was translated from the editor range against exactly the text the
\* splice modifies: whatever the interleaving of the Document::update calls
\* on a document, no other splice happens between the translation of the
\* range and the splice, and the range lies within the text it is applied to.
C36_SpliceOnTranslatedText ==
    \A p \in Handlers :
        AboutToSplice(p) =>
            /\ d_range[p].seen = Len(d_versions)
            /\ d_versions[d_range[p].seen] = d_content
            /\ replace_range_ok(d_content, d_range[p])

\* A range that was translated against the text it is applied to lies within
\* that text.
C36_FreshRangeWithinText ==
    \A p \in Handlers :
        (AboutToSplice(p) /\ d_range[p].seen = Len(d_versions)) =>
            /\ d_versions[d_range[p].seen] = d_content
            /\ replace_range_ok(d_content, d_range[p])

\* The text was spliced between the translation of a range and the splice of
\* that range.
StaleRange(p) == AboutToSplice(p) /\ d_range[p].seen < Len(d_versions)

\* A handler is about to splice with a stale range that is past the end of
\* the text.
C36_StaleOutOfBounds ==
    \E p \in Handlers : StaleRange(p) /\ ~replace_range_ok(d_content, d_range[p])

\* A handler is about to splice with a stale range that lies within the text
\* and no longer covers the bytes the editor range named.
C36_StaleWithinBounds ==
    \E p \in Handlers :
        /\ StaleRange(p)
        /\ replace_range_ok(d_content, d_range[p])
        /\ lsp_range_to_range(d_edit[p].range, d_content).start # d_range[p].start
-----------------------------------------------------------------------------
(* main.rs: the DocumentCache (the registry of open documents behind a     *)
(* tokio RwLock, each Document's content behind its own RwLock) and the    *)
(* did_open, did_change and did_close handlers of the Backend, each        *)
(* followed by Backend::validate.  The session is about one URI.  The      *)
(* handlers run concurrently; every lock acquisition is a point where a    *)
(* handler may be suspended.                                               *)

\* tokio::sync::RwLock is fair: the waiters are served in the order of their
\* requests, so a read request behind a waiting write request waits too.
Compatible(lock, mode) ==
    IF mode = "read" THEN lock.writers = {}
    ELSE lock.readers = {} /\ lock.writers = {}

Queued(lock, p) == \E k \in DOMAIN lock.queue : lock.queue[k].h = p

\* read().await or write().await of handler p completes.
CanTake(lock, p, mode) ==
    /\ Compatible(lock, mode)
    /\ IF Len(lock.queue) = 0 THEN TRUE ELSE lock.queue[1].h = p

\* The lock once the request of p is served and the guard dropped again
\* within the same statement.
Served(lock, p) == [lock EXCEPT !.queue = IF Queued(lock, p) THEN Tail(@) ELSE @]

\* The lock once the request of p is served and p holds the guard.
Taken(lock, p, mode) ==
    IF mode = "read" THEN [Served(lock, p) EXCEPT !.readers = @ \cup {p}]
    ELSE [Served(lock, p) EXCEPT !.writers = @ \cup {p}]

\* The guards of p are dropped.
Released(lock, p) == [lock EXCEPT !.readers = @ \ {p}, !.writers = @ \ {p}]

\* The notifications of the client.
DidOpen(text)      == [kind |-> "did_open",   text |-> text, changes |-> <<>>]
DidClose           == [kind |-> "did_close",  text |-> <<>>, changes |-> <<>>]
DidChange(changes) == [kind |-> "did_change", text |-> <<>>, changes |-> changes]

\* TextDocumentContentChangeEvent: range is an Option.
Ranged(sl, sc, el, ec, text) ==
    [has_range |-> TRUE, range |-> [start |-> LspPos(sl, sc), end |-> LspPos(el, ec)],
     text |-> text]
Rangeless(text) ==
    [has_range |-> FALSE, range |-> [start |-> LspPos(0, 0), end |-> LspPos(0, 0)],
     text |-> text]

DeleteFirst   == Ranged(0, 0, 0, 1, <<>>)
DeleteNewline == Ranged(0, 2, 1, 0, <<>>)
ReplaceSecond == Ranged(1, 0, 1, 1, <<"x", "y">>)
WholeText     == Rangeless(<<"z">>)

ReopenedText == <<"x">>

\* The sessions: the notifications of the client in the order they arrive.
CacheScripts ==
    { <<DidOpen(OpenedText), DidClose, DidOpen(ReopenedText)>>,
      <<DidOpen(OpenedText), DidChange(<<DeleteFirst, WholeText, ReplaceSecond>>)>>,
      <<DidChange(<<DeleteFirst>>), DidOpen(OpenedText)>>,
      <<DidOpen(OpenedText), DidChange(<<DeleteNewline>>), DidChange(<<ReplaceSecond>>)>>,
      <<DidClose, DidOpen(OpenedText), DidChange(<<DeleteFirst, ReplaceSecond>>)>> }

CacheInit ==
    /\ c_script \in CacheScripts
    /\ c_next = 1
    /\ c_map = Absent
    /\ c_map_lock = Free
    /\ c_content_lock = Free
    /\ c_pc = [p \in Handlers |-> "idle"]
    /\ c_job = [p \in Handlers |-> NoJob]
    /\ c_i = [p \in Handlers |-> 0]
    /\ c_range = [p \in Handlers |-> NoBytes]
    /\ c_snapshot = [p \in Handlers |-> <<>>]
    /\ c_log = <<>>
    /\ c_notes = [n \in DOMAIN c_script |-> <<>>]

\* What handler p did: n is the number of its notification.
Event(p, ev, i, text, msg) ==
    [n |-> c_job[p].n, ev |-> ev, i |-> i, text |-> text, msg |-> msg]

\* The events that change the registry or depend on what it holds when a
\* notification arrives are kept in one log; every event is kept in the
\* notes of its notification.
RegistryEvents == {"open_found", "inserted", "close_found", "removed", "applied"}

Record(p, e) ==
    /\ c_notes' = [c_notes EXCEPT ![c_job[p].n] = Append(@, e)]
    /\ c_log' = IF e.ev \in RegistryEvents THEN Append(c_log, e) ELSE c_log

NoDocument == "Unable to get document to update"
NoChangeRange == "Unable to get range to update"
NoCurrentDocument == "Unable to get current document for validation"

\* The lock and the kind of guard a handler asks for where it is.
MapMode(pc) ==
    IF pc \in {"open_check", "close_check", "update_lock", "validate", "validate_lock"}
    THEN "read"
    ELSE IF pc \in {"open_insert", "close_remove"} THEN "write"
    ELSE "none"

ContentMode(pc) ==
    IF pc \in {"update_range", "validate_clone"} THEN "read"
    ELSE IF pc = "update_splice" THEN "write"
    ELSE "none"

\* self.map.read().await / self.map.write().await cannot complete: the
\* handler is put in the queue of the lock and suspended.
AwaitMap(p) ==
    /\ MapMode(c_pc[p]) # "none"
    /\ ~Queued(c_map_lock, p)
    /\ ~CanTake(c_map_lock, p, MapMode(c_pc[p]))
    /\ c_map_lock' = [c_map_lock EXCEPT
                        !.queue = Append(@, [h |-> p, mode |-> MapMode(c_pc[p])])]
    /\ UNCHANGED <<c_script, c_next, c_map, c_content_lock, c_pc, c_job, c_i, c_range,
                   c_snapshot, c_log, c_notes, notCache>>

\* self.content.read().await / self.content.write().await cannot complete.
AwaitContent(p) ==
    /\ ContentMode(c_pc[p]) # "none"
    /\ ~Queued(c_content_lock, p)
    /\ ~CanTake(c_content_lock, p, ContentMode(c_pc[p]))
    /\ c_content_lock' = [c_content_lock EXCEPT
                            !.queue = Append(@, [h |-> p, mode |-> ContentMode(c_pc[p])])]
    /\ UNCHANGED <<c_script, c_next, c_map, c_map_lock, c_pc, c_job, c_i, c_range,
                   c_snapshot, c_log, c_notes, notCache>>

\* The server begins to handle the next notification (which of the free
\* handlers takes it makes no difference: the first one does).
HandlerStart(p) ==
    /\ c_pc[p] = "idle"
    /\ \A q \in 1..(p - 1) : c_pc[q] # "idle"
    /\ c_next <= Len(c_script)
    /\ c_job' = [c_job EXCEPT ![p] =
                    [n |-> c_next, kind |-> c_script[c_next].kind,
                     text |-> c_script[c_next].text, changes |-> c_script[c_next].changes]]
    /\ c_next' = c_next + 1
    /\ c_i' = [c_i EXCEPT ![p] = 1]
    /\ c_pc' = [c_pc EXCEPT ![p] =
                   IF c_script[c_next].kind = "did_open" THEN "open_check"
                   ELSE IF c_script[c_next].kind = "did_close" THEN "close_check"
                   ELSE "update_lock"]
    /\ UNCHANGED <<c_script, c_map, c_map_lock, c_content_lock, c_range, c_snapshot,
                   c_log, c_notes, notCache>>

\* Mutant of DidOpenCheck: the read guard of the presence check is still
\* held when the write guard is asked for.
DidOpenCheck_guard_kept(p) ==
    /\ c_pc[p] = "open_check"
    /\ CanTake(c_map_lock, p, "read")
    /\ c_map_lock' = IF c_map.present THEN Served(c_map_lock, p)
                     ELSE Taken(c_map_lock, p, "read")
    /\ c_pc' = [c_pc EXCEPT ![p] = IF c_map.present THEN "validate" ELSE "open_insert"]
    /\ IF c_map.present
       THEN Record(p, Event(p, "open_found", 0, c_map.content, ""))
       ELSE UNCHANGED <<c_log, c_notes>>
    /\ UNCHANGED <<c_script, c_next, c_map, c_content_lock, c_job, c_i, c_range,
                   c_snapshot, notCache>>

\* DocumentCache::did_open: if !{ self.map.read().await.contains_key(..) }
DidOpenCheck(p) ==
    /\ c_pc[p] = "open_check"
    /\ CanTake(c_map_lock, p, "read")
    /\ c_map_lock' = Served(c_map_lock, p)
    /\ c_pc' = [c_pc EXCEPT ![p] = IF c_map.present THEN "validate" ELSE "open_insert"]
    /\ IF c_map.present
       THEN Record(p, Event(p, "open_found", 0, c_map.content, ""))
       ELSE UNCHANGED <<c_log, c_notes>>
    /\ UNCHANGED <<c_script, c_next, c_map, c_content_lock, c_job, c_i, c_range,
                   c_snapshot, notCache>>

\* self.map.write().await.insert(uri, Document { uri, content: RwLock::new(text) })
DidOpenInsert(p) ==
    /\ c_pc[p] = "open_insert"
    /\ CanTake(c_map_lock, p, "write")
    /\ c_map_lock' = Served(c_map_lock, p)
    /\ c_map' = [present |-> TRUE, content |-> c_job[p].text]
    /\ c_content_lock' = Free
    /\ c_pc' = [c_pc EXCEPT ![p] = "validate"]
    /\ Record(p, Event(p, "inserted", 0, c_job[p].text, ""))
    /\ UNCHANGED <<c_script, c_next, c_job, c_i, c_range, c_snapshot, notCache>>

\* DocumentCache::did_close: if !self.map.read().await.contains_key(..)
\* The body runs when the URI is NOT in the map.
DidCloseCheck(p) ==
    /\ c_pc[p] = "close_check"
    /\ CanTake(c_map_lock, p, "read")
    /\ c_map_lock' = Served(c_map_lock, p)
    /\ c_pc' = [c_pc EXCEPT ![p] = IF ~c_map.present THEN "close_remove" ELSE "validate"]
    /\ IF c_map.present
       THEN Record(p, Event(p, "close_found", 0, c_map.content, ""))
       ELSE UNCHANGED <<c_log, c_notes>>
    /\ UNCHANGED <<c_script, c_next, c_map, c_content_lock, c_job, c_i, c_range,
                   c_snapshot, notCache>>

\* self.map.write().await.remove(&uri)
DidCloseRemove(p) ==
    /\ c_pc[p] = "close_remove"
    /\ CanTake(c_map_lock, p, "write")
    /\ c_map_lock' = Served(c_map_lock, p)
    /\ c_map' = Absent
    /\ c_content_lock' = Free
    /\ c_pc' = [c_pc EXCEPT ![p] = "validate"]
    /\ Record(p, Event(p, "removed", IF c_map.present THEN 1 ELSE 0,
                                    c_map.content, ""))
    /\ UNCHANGED <<c_script, c_next, c_job, c_i, c_range, c_snapshot, notCache>>

\* The content change DocumentCache::update is at.
Change(p) == c_job[p].changes[c_i[p]]

\* DocumentCache::update returns Err(why): the map guard is dropped.
UpdateErr(p, why) ==
    /\ c_map_lock' = Served(c_map_lock, p)
    /\ c_pc' = [c_pc EXCEPT ![p] = "show_error"]
    /\ Record(p, Event(p, "update_err", c_i[p], c_map.content, why))

\* Mutant of UpdateLock: a content change without range is passed over.
UpdateLock_rangeless_skipped(p) ==
    /\ c_pc[p] = "update_lock"
    /\ CanTake(c_map_lock, p, "read")
    /\ IF ~c_map.present THEN UpdateErr(p, NoDocument) /\ UNCHANGED c_i
       ELSE IF ~Change(p).has_range
       THEN /\ c_map_lock' = Served(c_map_lock, p)
            /\ c_i' = [c_i EXCEPT ![p] = @ + 1]
            /\ c_pc' = [c_pc EXCEPT ![p] =
                           IF c_i[p] = Len(c_job[p].changes) THEN "validate" ELSE "update_lock"]
            /\ UNCHANGED <<c_log, c_notes>>
       ELSE /\ c_map_lock' = Taken(c_map_lock, p, "read")
            /\ c_pc' = [c_pc EXCEPT ![p] = "update_range"]
            /\ UNCHANGED <<c_log, c_notes, c_i>>
    /\ UNCHANGED <<c_script, c_next, c_map, c_content_lock, c_job, c_range,
                   c_snapshot, notCache>>

\* DocumentCache::update, one content change: let lock = self.map.read().await;
\* let doc = lock.get(..); the two early returns.
UpdateLock(p) ==
    /\ c_pc[p] = "update_lock"
    /\ CanTake(c_map_lock, p, "read")
    /\ IF ~c_map.present THEN UpdateErr(p, NoDocument)
       ELSE IF ~Change(p).has_range THEN UpdateErr(p, NoChangeRange)
       ELSE /\ c_map_lock' = Taken(c_map_lock, p, "read")
            /\ c_pc' = [c_pc EXCEPT ![p] = "update_range"]
            /\ UNCHANGED <<c_log, c_notes>>
    /\ UNCHANGED <<c_script, c_next, c_map, c_content_lock, c_job, c_i, c_range,
                   c_snapshot, notCache>>

\* did_change: if let Err(why) = .. { self.client.show_message(Error, why).await }
ShowUpdateError(p) ==
    /\ c_pc[p] = "show_error"
    /\ c_pc' = [c_pc EXCEPT ![p] = "validate"]
    /\ Record(p, Event(p, "show_message", c_i[p], <<>>, "update"))
    /\ UNCHANGED <<c_script, c_next, c_map, c_map_lock, c_content_lock, c_job, c_i,
                   c_range, c_snapshot, notCache>>

\* A panic unwinds the handler: its guards are dropped and it never returns.
Panicked(p, where) ==
    /\ c_map_lock' = Released(Served(c_map_lock, p), p)
    /\ c_pc' = [c_pc EXCEPT ![p] = "panicked"]
    /\ Record(p, Event(p, "panicked", c_i[p], <<>>, where))

\* Document::update: let range = lsp_range_to_range(range, &self.content.read().await);
\* r is what lsp_range_to_range returned.
RangeTranslated(p, r) ==
    IF r.abort
    THEN Panicked(p, "lsp_range_to_range") /\ UNCHANGED c_range
    ELSE /\ c_range' = [c_range EXCEPT ![p] = [start |-> r.start, end |-> r.end]]
         /\ c_pc' = [c_pc EXCEPT ![p] = "update_splice"]
         /\ UNCHANGED <<c_map_lock, c_log, c_notes>>

\* Document::update, self.content.read().await
DocumentUpdateRead(p) ==
    /\ c_pc[p] = "update_range"
    /\ CanTake(c_content_lock, p, "read")
    /\ c_content_lock' = Taken(c_content_lock, p, "read")
    /\ c_pc' = [c_pc EXCEPT ![p] = "update_ranging"]
    /\ UNCHANGED <<c_script, c_next, c_map, c_map_lock, c_job, c_i, c_range, c_snapshot,
                   c_log, c_notes, notCache>>

\* The end of the let statement: the read guard is dropped.
DocumentUpdateRange(p) ==
    /\ c_pc[p] = "update_ranging"
    /\ c_content_lock' = Released(c_content_lock, p)
    /\ RangeTranslated(p, lsp_range_to_range(Change(p).range, c_map.content))
    /\ UNCHANGED <<c_script, c_next, c_map, c_job, c_i, c_snapshot, notCache>>

\* Document::update, self.content.write().await
DocumentUpdateWrite(p) ==
    /\ c_pc[p] = "update_splice"
    /\ CanTake(c_content_lock, p, "write")
    /\ c_content_lock' = Taken(c_content_lock, p, "write")
    /\ c_pc' = [c_pc EXCEPT ![p] = "update_splicing"]
    /\ UNCHANGED <<c_script, c_next, c_map, c_map_lock, c_job, c_i, c_range, c_snapshot,
                   c_log, c_notes, notCache>>

\* .replace_range(range, &content); the write guard is dropped, the iteration
\* of DocumentCache::update ends and the map guard is dropped; Ok(()) after
\* the last content change.
DocumentUpdateSplice(p) ==
    /\ c_pc[p] = "update_splicing"
    /\ c_content_lock' = Released(c_content_lock, p)
    /\ IF replace_range_ok(c_map.content, c_range[p])
       THEN /\ c_map' = [c_map EXCEPT !.content =
                            SpliceIn(SpliceOut(@, c_range[p]), c_range[p], Change(p).text)]
            /\ c_map_lock' = Released(c_map_lock, p)
            /\ c_i' = [c_i EXCEPT ![p] = @ + 1]
            /\ c_pc' = [c_pc EXCEPT ![p] =
                           IF c_i[p] = Len(c_job[p].changes) THEN "validate" ELSE "update_lock"]
            /\ Record(p, Event(p, "applied", c_i[p], c_map'.content, ""))
       ELSE Panicked(p, "replace_range") /\ UNCHANGED <<c_map, c_i>>
    /\ UNCHANGED <<c_script, c_next, c_job, c_range, c_snapshot, notCache>>

\* Backend::validate: self.client.log_message(..).await;
\* if self.documents.map.read().await.contains_key(&uri)
BackendValidateCheck(p) ==
    /\ c_pc[p] = "validate"
    /\ CanTake(c_map_lock, p, "read")
    /\ c_map_lock' = Served(c_map_lock, p)
    /\ c_pc' = [c_pc EXCEPT ![p] = IF c_map.present THEN "validate_lock" ELSE "not_found"]
    /\ Record(p, Event(p, "checked", IF c_map.present THEN 1 ELSE 0, <<>>, ""))
    /\ UNCHANGED <<c_script, c_next, c_map, c_content_lock, c_job, c_i, c_range,
                   c_snapshot, notCache>>

\* let lock = self.documents.map.read().await; let doc = lock.get(&uri).unwrap();
BackendValidateLock(p) ==
    /\ c_pc[p] = "validate_lock"
    /\ CanTake(c_map_lock, p, "read")
    /\ IF c_map.present
       THEN /\ c_map_lock' = Taken(c_map_lock, p, "read")
            /\ c_pc' = [c_pc EXCEPT ![p] = "validate_clone"]
            /\ UNCHANGED <<c_log, c_notes>>
       ELSE Panicked(p, "unwrap")
    /\ UNCHANGED <<c_script, c_next, c_map, c_content_lock, c_job, c_i, c_range,
                   c_snapshot, notCache>>

\* let lock = doc.content.read().await;
BackendValidateRead(p) ==
    /\ c_pc[p] = "validate_clone"
    /\ CanTake(c_content_lock, p, "read")
    /\ c_content_lock' = Taken(c_content_lock, p, "read")
    /\ c_pc' = [c_pc EXCEPT ![p] = "validate_cloning"]
    /\ UNCHANGED <<c_script, c_next, c_map, c_map_lock, c_job, c_i, c_range, c_snapshot,
                   c_log, c_notes, notCache>>

\* lock.clone(); both guards are dropped at the end of the block.
BackendValidateClone(p) ==
    /\ c_pc[p] = "validate_cloning"
    /\ c_content_lock' = Released(c_content_lock, p)
    /\ c_map_lock' = Released(c_map_lock, p)
    /\ c_snapshot' = [c_snapshot EXCEPT ![p] = c_map.content]
    /\ c_pc' = [c_pc EXCEPT ![p] = "publish"]
    /\ UNCHANGED <<c_script, c_next, c_map, c_job, c_i, c_range, c_log, c_notes, notCache>>

\* The handler returns.
Returned(p, ev, text, msg) ==
    /\ c_pc' = [c_pc EXCEPT ![p] = "idle"]
    /\ c_job' = [c_job EXCEPT ![p] = NoJob]
    /\ c_notes' = [c_notes EXCEPT ![c_job[p].n] =
                        @ \o <<Event(p, ev, 0, text, msg), Event(p, "returned", 0, <<>>, "")>>]
    /\ c_i' = [c_i EXCEPT ![p] = 0]
    /\ c_range' = [c_range EXCEPT ![p] = NoBytes]
    /\ c_snapshot' = [c_snapshot EXCEPT ![p] = <<>>]
    /\ UNCHANGED <<c_script, c_next, c_map, c_map_lock, c_content_lock, c_log, notCache>>

\* match validate(content) { Ok(diags) => self.client.publish_diagnostics(uri, diags, None).await
\* The diagnostics are a function of the text validated, which stands for them.
PublishDiagnostics(p) ==
    /\ c_pc[p] = "publish"
    /\ Returned(p, "published", c_snapshot[p], "")

\* self.client.show_message(Error, "Unable to get current document for validation").await
ShowNotFound(p) ==
    /\ c_pc[p] = "not_found"
    /\ Returned(p, "show_message", <<>>, NoCurrentDocument)

CacheStep(p) ==
    \/ HandlerStart(p)
    \/ AwaitMap(p)
    \/ AwaitContent(p)
    \/ DidOpenCheck(p)
    \/ DidOpenInsert(p)
    \/ DidCloseCheck(p)
    \/ DidCloseRemove(p)
    \/ UpdateLock(p)
    \/ ShowUpdateError(p)
    \/ DocumentUpdateRead(p)
    \/ DocumentUpdateRange(p)
    \/ DocumentUpdateWrite(p)
    \/ DocumentUpdateSplice(p)
    \/ BackendValidateCheck(p)
    \/ BackendValidateLock(p)
    \/ BackendValidateRead(p)
    \/ BackendValidateClone(p)
    \/ PublishDiagnostics(p)
    \/ ShowNotFound(p)

CacheNext == \E p \in Handlers : CacheStep(p)

CacheSpecInit == CacheInit /\ PosIdle /\ LexIdle /\ ValIdle /\ TrimIdle /\ DocIdle /\ HdrIdle
SpecCache == CacheSpecInit /\ [][CacheNext]_vars

\* The executor keeps polling: as long as some handler can take a step, one
\* of them does.
CacheFairness == WF_vars(CacheNext)
SpecCacheFair == CacheSpecInit /\ [][CacheNext]_vars /\ CacheFairness
-----------------------------------------------------------------------------
(* Properties of the registry *)

\* The events of notification n of a kind, in order.
EventsOf(n, ev) == SelectSeq(c_notes[n], LAMBDA e : e.ev = ev)

\* The positions of the log after k.
After(k) == (k + 1)..Len(c_log)

\* C37: once did_close for a document that is in the registry has returned,
\* the registry no longer holds the URI, so the validation that the close
\* triggers finds no document and publishes nothing, and a later did_open
\* stores the text it brings.
C37_ClosedIsGone ==
    \A k \in DOMAIN c_log :
        c_log[k].ev = "close_found" =>
            /\ k = Len(c_log) => ~c_map.present
            /\ Len(EventsOf(c_log[k].n, "published")) = 0
            /\ \A j \in After(k) :
                  c_log[j].ev = "open_found" =>
                      \E m \in (k + 1)..(j - 1) : c_log[m].ev = "inserted"

\* What the code does instead: did_close leaves a document that is in the
\* registry where it is, with its text.
C37_CloseKeepsOpenDocument ==
    (c_log # <<>> /\ c_log[Len(c_log)].ev = "close_found") =>
        /\ c_map.present
        /\ c_map.content = c_log[Len(c_log)].text
-----------------------------------------------------------------------------
(* Properties of DocumentCache::update *)

\* The text the last insertion or splice left in the registry.
TextEvents == SelectSeq(c_log, LAMBDA e : e.ev \in {"inserted", "applied"})

\* Notification n has returned from DocumentCache::update with an error.
UpdateFailed(n) == Len(EventsOf(n, "update_err")) > 0

\* C38: DocumentCache::update applies the content changes of a notification
\* in order and returns an error at the first one whose document is not in
\* the registry or that has no range: the changes before it stay applied,
\* that one and the later ones are not applied, a change without range
\* never changes a text, and did_change shows the error and validates all
\* the same.
C38_UpdateStopsAtFirstError ==
    /\ \A n \in DOMAIN c_script :
          c_script[n].kind = "did_change" =>
              /\ \A k \in DOMAIN EventsOf(n, "applied") :
                    /\ EventsOf(n, "applied")[k].i = k
                    /\ c_script[n].changes[k].has_range
              /\ Len(EventsOf(n, "update_err")) <= 1
              /\ UpdateFailed(n) =>
                    /\ EventsOf(n, "update_err")[1].i = Len(EventsOf(n, "applied")) + 1
                    /\ EventsOf(n, "update_err")[1].msg \in {NoDocument, NoChangeRange}
                    /\ EventsOf(n, "update_err")[1].msg = NoChangeRange <=>
                          ~c_script[n].changes[EventsOf(n, "update_err")[1].i].has_range
                    /\ Len(EventsOf(n, "returned")) > 0 =>
                          /\ Len(EventsOf(n, "show_message")) >= 1
                          /\ EventsOf(n, "show_message")[1].msg = "update"
                          /\ Len(EventsOf(n, "checked")) = 1
    /\ \A n \in DOMAIN c_script :
          \A k \in DOMAIN c_notes[n] :
              c_notes[n][k].ev = "update_err" =>
                  \A j \in (k + 1)..Len(c_notes[n]) : c_notes[n][j].ev # "applied"
    /\ (c_map.present /\ Len(TextEvents) > 0) =>
          c_map.content = TextEvents[Len(TextEvents)].text

\* A did_change with a change without range in second place applied its
\* first change, returned the error and went on to publish diagnostics.
C38_Witness ==
    \E n \in DOMAIN c_script :
        /\ UpdateFailed(n)
        /\ EventsOf(n, "update_err")[1].i = 2
        /\ EventsOf(n, "update_err")[1].msg = NoChangeRange
        /\ Len(EventsOf(n, "applied")) = 1
        /\ Len(EventsOf(n, "published")) = 1
        /\ Len(EventsOf(n, "returned")) = 1
-----------------------------------------------------------------------------
(* Properties of Backend::validate *)

\* The messages shown for notification n because its document is missing.
NotFoundShown(n) ==
    SelectSeq(c_notes[n], LAMBDA e : e.ev = "show_message" /\ e.msg = NoCurrentDocument)

\* Notification n went through Backend::validate: a URI that the presence
\* check did not find got the error message and no publication, one that it
\* found got exactly one publication and no such message.
OneOutcome(n) ==
    /\ Len(EventsOf(n, "checked")) = 1
    /\ IF EventsOf(n, "checked")[1].i = 1
       THEN Len(EventsOf(n, "published")) = 1 /\ Len(NotFoundShown(n)) = 0
       ELSE Len(EventsOf(n, "published")) = 0 /\ Len(NotFoundShown(n)) = 1

\* C39: a validation for a URI that is not in the registry publishes nothing
\* and shows an error message; one for a URI that is in the registry
\* publishes exactly one list of diagnostics; and the document that the
\* presence check found is still there when its text is read, so that the
\* lookup never aborts.
C39_ValidateOutcome ==
    /\ \A n \in DOMAIN c_script : Len(EventsOf(n, "returned")) > 0 => OneOutcome(n)
    /\ \A p \in Handlers : c_pc[p] = "validate_lock" => c_map.present
    /\ \A n \in DOMAIN c_script :
          \A k \in DOMAIN c_notes[n] :
              ~(c_notes[n][k].ev = "panicked" /\ c_notes[n][k].msg = "unwrap")

\* Every validation that returns has the outcome its presence check calls for.
C39_OutcomeOfReturned ==
    \A n \in DOMAIN c_script : Len(EventsOf(n, "returned")) > 0 => OneOutcome(n)

\* The lookup of a validation aborted: the document its presence check found
\* was removed before the text was read.
C39_LookupAborted ==
    \E n \in DOMAIN c_script :
        \E k \in DOMAIN c_notes[n] :
            c_notes[n][k].ev = "panicked" /\ c_notes[n][k].msg = "unwrap"
-----------------------------------------------------------------------------
(* Properties of the locks *)

\* Handler p is in the middle of a notification.
Busy(p) == c_pc[p] \notin {"idle", "panicked"}

\* No handler asks for the write guard of a lock of which it holds a read guard.
NoUpgrade ==
    \A p \in Handlers :
        /\ MapMode(c_pc[p]) = "write" => p \notin c_map_lock.readers
        /\ ContentMode(c_pc[p]) = "write" => p \notin c_content_lock.readers

\* Every notification has been taken up (as long as a handler is left to take
\* it up), no handler is in the middle of one, and each one that was taken up
\* has returned unless a panic ended its handler.
AllHandled ==
    /\ \A p \in Handlers : ~Busy(p)
    /\ c_next > Len(c_script) \/ \A p \in Handlers : c_pc[p] = "panicked"
    /\ \A n \in 1..(c_next - 1) :
          Len(EventsOf(n, "returned")) + Len(EventsOf(n, "panicked")) = 1

=============================================================================
